---- MODULE Spec2Model ----
(***************************************************************************)
(* Secure-notes platform: the note lifecycle store (Express routes over a  *)
(* Prisma table), its password gate, and the client's create submission.   *)
(* Every await of a route handler is an interleaving point: a handler is a *)
(* process whose steps are the database operations it awaits, each taken   *)
(* together with the synchronous code that follows it.                     *)
(***************************************************************************)
EXTENDS Integers, Sequences, FiniteSets, Bags, TLC

VARIABLES
    notes,      \* the SecureNote table: a function from the ids in use to rows
    now,        \* the wall clock (new Date(), Date.now())
    handlers,   \* the read handlers in flight, a bag: of each the await it stands
                \* at (pc), its request (req), the row findUnique returned (note),
                \* whether that row was past its expiresAt then (late) and the row
                \* the increment returned (updatedNote)
    last,       \* the request answered last (req), its response (resp), the row
                \* its findUnique returned (found), and whether that row was past
                \* its expiresAt when it was found (late)
    links,      \* the create page's navigation state: note id -> key and password
    okReads,    \* per note: reads answered with the payload so far
    createdWith, \* per note: the password field of its create request
    delAcked,   \* per note: a delete of it has been answered with success
    overlapped, \* per note: a read of it arrived while another was in flight
    plaintext,  \* the codec: the text or bytes given to encrypt
    encrypted,  \* the codec: the EncryptionResult encrypt returned
    args,       \* the codec: the four strings given to decrypt
    decrypted,  \* the codec: what decrypt returned or threw
    location,   \* the view page: id of the route, search and hash of the URL
    hasLoadedRef, \* the view page: hasLoadedRef.current
    lifecycle,  \* the view page: the effect runs and cleanups React has yet to make
    requests,   \* the view page: the read requests getNote has sent
    pending,    \* the view page: the getNote calls awaited, a bag
    page,       \* the view page: loading, error, requiresPassword, passwordError
                \* and whether the decrypted content is set
    link,       \* the view page: what the URL opened was built from
    edited,     \* the view page: the URL's hash was changed after opening
    scanned,    \* the threat scanner: the text given to analyzeThreats
    analysis,   \* the threat scanner: the ThreatAnalysis it returned
    form,       \* the create page: its React state and the store's security mode
    attempt     \* the create page: what the submit just made came to, the create
                \* request it sent or the error it threw, and its Date.now()

\* The server, its clock and the create page.
serverVars ==
    <<notes, now, handlers, last, links, createdWith, okReads, delAcked, overlapped>>

\* The encryption codec at work in a browser.
codecVars == <<plaintext, encrypted, args, decrypted>>

\* The view page of a note in a browser.
pageVars == <<location, hasLoadedRef, lifecycle, requests, pending, page, link, edited>>

\* The threat scanner in a browser.
scanVars == <<scanned, analysis>>

\* The create page's form in a browser.
formVars == <<form, attempt>>

\* What runs in a browser apart from the create page's submission.
clientVars == <<codecVars, pageVars, scanVars, formVars>>

vars == <<serverVars, clientVars>>

-----------------------------------------------------------------------------
(* Bounds *)

NumReqs == 2        \* read handlers that can be in flight together
MaxReads == 3       \* payloads returned for a note after which no read is sent
MaxTime == 2        \* clock ticks
MaxViewsCap == 2    \* largest maxViews a create form asks for

NoteIds == {"n1"}
Null == "null"                  \* a null string column or field
None == <<>>                    \* an absent or null value of another type
Some(x) == <<x>>
NoNote == None                  \* findUnique's null
NoReq == [op |-> "none"]
NoResp == [status |-> 0]

Keys == {"k1"}                  \* outcomes of generateKey
IVs == {"iv1"}                  \* outcomes of getRandomValues
Salts == {"s1"}                 \* outcomes of randomBytes(32)
Contents == {"hello"}           \* text typed in the create form
FormPasswords == {<<>>, <<"a">>}          \* typed in the create form
ReadPasswords == {None, Some(<<"a">>), Some(<<"b">>)} \* ?password= of a read or verify
ExpiryDelays == {1}             \* 'expires after', in clock ticks

-----------------------------------------------------------------------------
(* Pure functions *)

\* String.prototype.trim on a string held as a sequence of characters.
RECURSIVE TrimLeft(_)
TrimLeft(s) == IF s # <<>> /\ Head(s) = " " THEN TrimLeft(Tail(s)) ELSE s

RECURSIVE TrimRight(_)
TrimRight(s) ==
    IF s # <<>> /\ s[Len(s)] = " " THEN TrimRight(SubSeq(s, 1, Len(s) - 1)) ELSE s

Trim(s) == TrimRight(TrimLeft(s))

\* JavaScript truthiness of an optional string: undefined and "" are falsy.
Truthy(s) == s # None /\ s # Some(<<>>)

\* crypto.pbkdf2Sync(password, salt, ...).toString('hex'): a function of
\* (password, salt), taken to be collision free.
Pbkdf2(password, salt) == <<"pbkdf2", password, salt>>

hashPassword(password, salt) == [hash |-> Pbkdf2(password, salt), salt |-> salt]

\* verifyPassword comparing the salt alone.
verifyPasswordSaltOnly(password, hash, salt) == hash[3] = salt

verifyPassword(password, hash, salt) == hash = Pbkdf2(password, salt)

\* encrypt(): AES-256-GCM under a fresh key and IV; ciphertext and tag are
\* functions of (key, iv, data), the key is exported beside them.
encrypt(data, key, iv) ==
    [encryptedData |-> <<"ct", key, iv, data>>,
     iv            |-> iv,
     authTag       |-> <<"tag", key, iv, data>>,
     key           |-> key]

-----------------------------------------------------------------------------
(* The table *)

\* prisma.secureNote.findUnique({ where: { id } })
FindUnique(id) == IF id \in DOMAIN notes THEN Some(notes[id]) ELSE NoNote

\* prisma.secureNote.update({ where: { id }, data }): the columns named in
\* data are written, the others keep the row's current values.
ApplyUpdate(row, data) ==
    [f \in DOMAIN row |-> IF f \in DOMAIN data THEN data[f] ELSE row[f]]

\* cuid(): the next unused id.
UnusedIds == NoteIds \ DOMAIN notes

-----------------------------------------------------------------------------
(* POST /notes: the create page's submission and the server's handler *)

\* handleSubmit's request payload for a text note.
SubmitPayload(enc, expiryType, delay, views, typed, t) ==
    [encryptedData |-> enc.encryptedData,
     encryptedKey  |-> enc.key,
     iv            |-> enc.iv,
     authTag       |-> enc.authTag,
     maxViews      |-> IF expiryType = "views" THEN views ELSE 0,
     isFile        |-> FALSE,
     expiresAt     |-> IF expiryType = "time" THEN Some(t + delay) ELSE None,
     fileName      |-> Null,
     mimeType      |-> Null,
     password      |-> IF Trim(typed) # <<>> THEN Some(Trim(typed)) ELSE None]

\* A create request of another HTTP client that the schema accepts: an expiry
\* and a view cap together, and no password, an empty one or one of white
\* space.
WellFormedBodies ==
    [encryptedData : {<<"blob">>}, encryptedKey : {"opaque"}, iv : {"iv1"},
     authTag : {<<"tag">>}, maxViews : {1}, isFile : {FALSE},
     expiresAt : {Some(1)}, fileName : {Null}, mimeType : {Null},
     password : {None, Some(<<>>), Some(<<" ">>)}]

\* A JSON object without one of its fields.
Without(body, field) == [f \in DOMAIN body \ {field} |-> body[f]]

\* Create requests the schema rejects: a negative maxViews (sent with a
\* password), a payload field left out, and an expiresAt that is a string but
\* no date-time. A date-time string is held as <<t>>, t its instant; another
\* string as its characters.
MalformedBodies ==
    LET body == CHOOSE b \in WellFormedBodies : b.password = None IN
    { [body EXCEPT !.maxViews = -1, !.password = Some(<<"a">>)],
      Without(body, "encryptedData"),
      [body EXCEPT !.expiresAt = <<"s", "o", "o", "n">>] }

RawBodies == WellFormedBodies \cup MalformedBodies

\* The paths of the issues createNoteSchema.parse raises: the four payload
\* strings are required (a JSON field left out is a record field left out),
\* maxViews is an integer >= 0, expiresAt is a date-time string or null.
Issues(body) ==
    ({"encryptedData", "encryptedKey", "iv", "authTag"} \ DOMAIN body)
    \cup (IF body.maxViews >= 0 THEN {} ELSE {"maxViews"})
    \cup (IF body.expiresAt = None \/ Len(body.expiresAt) = 1 THEN {}
          ELSE {"expiresAt"})

\* ValidCreate letting any maxViews through.
ValidCreateAnyViews(body) == Issues(body) \ {"maxViews"} = {}

\* createNoteSchema.parse returns rather than throws.
ValidCreate(body) == Issues(body) = {}

\* HashIfProvided storing the salt whether or not a password came.
HashIfProvidedSaltAlways(password, salt) ==
    IF Truthy(password) /\ Len(Trim(password[1])) > 0
    THEN [passwordHash |-> Some(hashPassword(password[1], salt).hash),
          salt         |-> Some(salt)]
    ELSE [passwordHash |-> None, salt |-> Some(salt)]

\* HashIfProvided without the trim: any password that is not empty is hashed.
HashIfProvidedUntrimmed(password, salt) ==
    IF Truthy(password)
    THEN [passwordHash |-> Some(hashPassword(password[1], salt).hash),
          salt         |-> Some(hashPassword(password[1], salt).salt)]
    ELSE [passwordHash |-> None, salt |-> None]

\* Lines 28-34: passwordHash and salt, set together when the request has a
\* password that is not blank.
HashIfProvided(password, salt) ==
    IF Truthy(password) /\ Len(Trim(password[1])) > 0
    THEN [passwordHash |-> Some(hashPassword(password[1], salt).hash),
          salt         |-> Some(hashPassword(password[1], salt).salt)]
    ELSE [passwordHash |-> None, salt |-> None]

\* The row prisma.secureNote.create stores.
CreateRow(id, body, salt, t) ==
    LET hashed == HashIfProvided(body.password, salt)
    IN  [id            |-> id,
         encryptedData |-> body.encryptedData,
         encryptedKey  |-> body.encryptedKey,
         iv            |-> body.iv,
         authTag       |-> body.authTag,
         expiresAt     |-> body.expiresAt,
         maxViews      |-> body.maxViews,
         viewCount     |-> 0,
         isFile        |-> body.isFile,
         fileName      |-> body.fileName,
         mimeType      |-> body.mimeType,
         createdAt     |-> t,
         destroyed     |-> FALSE,
         passwordHash  |-> hashed.passwordHash,
         salt          |-> hashed.salt]

\* The response of router.post('/') to a body, were the row given id.
CreateResponse(body, id, t) ==
    IF ValidCreate(body)
    THEN [status |-> 200, id |-> id, createdAt |-> t]
    ELSE [status |-> 400, error |-> "Invalid request data",
          details |-> Issues(body), received |-> body]

\* router.post('/'): parse, hash, create, respond.
PostCreate(request, salt) ==
    LET id == CHOOSE i \in UnusedIds : TRUE IN
    /\ ValidCreate(request.body) => UnusedIds # {}
    /\ notes' = IF ValidCreate(request.body)
                THEN [i \in DOMAIN notes \cup {id} |->
                        IF i = id THEN CreateRow(id, request.body, salt, now)
                        ELSE notes[i]]
                ELSE notes
    /\ createdWith' = IF ValidCreate(request.body)
                      THEN [createdWith EXCEPT ![id] = request.body.password]
                      ELSE createdWith
    /\ last' = [req |-> request, resp |-> CreateResponse(request.body, id, now),
                found |-> NoNote, late |-> FALSE]

\* handleSubmit: encrypt, send the create request, and on its response keep
\* the note id, the key and the password for the share link.
SubmitCreate ==
    /\ \E content \in Contents, key \in Keys, iv \in IVs,
          expiryType \in {"none", "time", "views"}, delay \in ExpiryDelays,
          views \in 1..MaxViewsCap, typed \in FormPasswords, salt \in Salts :
         LET enc  == encrypt(content, key, iv)
             sent == [op |-> "create",
                      body |-> SubmitPayload(enc, expiryType, delay, views, typed, now)]
         IN  /\ PostCreate(sent, salt)
             /\ links' = IF last'.resp.status = 200
                         THEN [i \in DOMAIN links \cup {last'.resp.id} |->
                                 IF i = last'.resp.id
                                 THEN [encryptionKey |-> enc.key,
                                       password |-> IF Trim(typed) # <<>>
                                                    THEN Some(Trim(typed)) ELSE None]
                                 ELSE links[i]]
                         ELSE links
    /\ UNCHANGED <<now, handlers, okReads, delAcked, overlapped>>
    /\ UNCHANGED clientVars

\* A create request of another client.
CreateRaw ==
    /\ \E body \in RawBodies, salt \in Salts :
         PostCreate([op |-> "create", body |-> body], salt)
    /\ UNCHANGED <<now, handlers, links, okReads, delAcked, overlapped>>
    /\ UNCHANGED clientVars

-----------------------------------------------------------------------------
(* GET /notes/:id *)

\* Line 120: the note has a password gate.
Gated(n) == n.passwordHash # None /\ n.salt # None

\* Expired with the note given one more tick.
ExpiredOffByOne(n, t) == n.expiresAt # None /\ t > n.expiresAt[1] + 1

\* Line 131: note.expiresAt && new Date() > note.expiresAt
Expired(n, t) == n.expiresAt # None /\ t > n.expiresAt[1]

\* ViewsExhausted without the test for a cap.
ViewsExhaustedNoCapTest(n) == n.viewCount >= n.maxViews

\* ViewsExhausted with > for >=.
ViewsExhaustedOffByOne(n) == n.maxViews > 0 /\ n.viewCount > n.maxViews

\* Line 141: note.maxViews > 0 && note.viewCount >= note.maxViews
ViewsExhausted(n) == n.maxViews > 0 /\ n.viewCount >= n.maxViews

\* Line 156: note.maxViews > 0 && updatedNote.viewCount >= note.maxViews
LastView(n, updated) == n.maxViews > 0 /\ updated.viewCount >= n.maxViews

\* GetOutcome with the password gate moved before the destroyed check.
GetOutcomeGateFirst(found, password, t) ==
    IF found = NoNote THEN "notfound"
    ELSE LET n == found[1] IN
         IF Gated(n) /\ ~Truthy(password) THEN "pwrequired"
         ELSE IF Gated(n) /\ ~verifyPassword(password[1], n.passwordHash[1], n.salt[1])
              THEN "pwinvalid"
         ELSE IF n.destroyed THEN "destroyed"
         ELSE IF Expired(n, t) THEN "expired"
         ELSE IF ViewsExhausted(n) THEN "exhausted"
         ELSE "increment"

\* GetOutcome with the expiry check moved before the password gate.
GetOutcomeExpiryFirst(found, password, t) ==
    IF found = NoNote THEN "notfound"
    ELSE LET n == found[1] IN
         IF n.destroyed THEN "destroyed"
         ELSE IF Expired(n, t) THEN "expired"
         ELSE IF Gated(n) /\ ~Truthy(password) THEN "pwrequired"
         ELSE IF Gated(n) /\ ~verifyPassword(password[1], n.passwordHash[1], n.salt[1])
              THEN "pwinvalid"
         ELSE IF ViewsExhausted(n) THEN "exhausted"
         ELSE "increment"

\* GetOutcome refusing a password sent for a note that has no gate.
GetOutcomeStrayPassword(found, password, t) ==
    IF found = NoNote THEN "notfound"
    ELSE LET n == found[1] IN
         IF n.destroyed THEN "destroyed"
         ELSE IF Gated(n) /\ ~Truthy(password) THEN "pwrequired"
         ELSE IF Gated(n) /\ ~verifyPassword(password[1], n.passwordHash[1], n.salt[1])
              THEN "pwinvalid"
         ELSE IF ~Gated(n) /\ Truthy(password) THEN "pwinvalid"
         ELSE IF Expired(n, t) THEN "expired"
         ELSE IF ViewsExhausted(n) THEN "exhausted"
         ELSE "increment"

\* Lines 111-149: what the handler does with the row findUnique returned.
GetOutcome(found, password, t) ==
    IF found = NoNote THEN "notfound"
    ELSE LET n == found[1] IN
         IF n.destroyed THEN "destroyed"
         ELSE IF Gated(n) /\ ~Truthy(password) THEN "pwrequired"
         ELSE IF Gated(n) /\ ~verifyPassword(password[1], n.passwordHash[1], n.salt[1])
              THEN "pwinvalid"
         ELSE IF Expired(n, t) THEN "expired"
         ELSE IF ViewsExhausted(n) THEN "exhausted"
         ELSE "increment"

\* IncrementData writing back the whole row the handler read.
IncrementDataWholeRow(n) == [n EXCEPT !.viewCount = @ + 1]

\* Lines 150-153: the columns the increment writes.
IncrementData(n) == [viewCount |-> n.viewCount + 1]

\* DestroyData wiping the ciphertext as well.
DestroyDataWipe == [destroyed |-> TRUE, encryptedData |-> <<>>, authTag |-> <<>>]

\* DestroyData clearing the view count as well.
DestroyDataResetCount == [destroyed |-> TRUE, viewCount |-> 0]

\* Lines 135, 144, 159, 187: the columns a destruction writes.
DestroyData == [destroyed |-> TRUE]

\* GetResponse with note.viewCount for updatedNote.viewCount.
GetResponseStaleCount(n, updated) ==
    [status |-> 200,
     encryptedData |-> n.encryptedData, encryptedKey |-> n.encryptedKey,
     iv |-> n.iv, authTag |-> n.authTag, isFile |-> n.isFile,
     fileName |-> n.fileName, mimeType |-> n.mimeType,
     viewCount |-> n.viewCount, maxViews |-> n.maxViews]

\* Lines 163-173: the payload response.
GetResponse(n, updated) ==
    [status |-> 200,
     encryptedData |-> n.encryptedData, encryptedKey |-> n.encryptedKey,
     iv |-> n.iv, authTag |-> n.authTag, isFile |-> n.isFile,
     fileName |-> n.fileName, mimeType |-> n.mimeType,
     viewCount |-> updated.viewCount, maxViews |-> n.maxViews]

ErrorResponse(status, error) == [status |-> status, error |-> error]

GateResponse(error) == [status |-> 401, error |-> error, requiresPassword |-> TRUE]

\* The response of lines 111-127, for the outcomes that end the handler there.
EarlyResponse(outcome) ==
    CASE outcome = "notfound"   -> ErrorResponse(404, "Note not found")
      [] outcome = "destroyed"  -> ErrorResponse(410, "Note has been destroyed")
      [] outcome = "pwrequired" -> GateResponse("Password required")
      [] outcome = "pwinvalid"  -> GateResponse("Invalid password")

\* The row a request found had an expiresAt, and the clock was past it.
PastExpiry(found, t) ==
    found # NoNote /\ found[1].expiresAt # None /\ found[1].expiresAt[1] < t

\* A handler starts to await an update.
Await(h) == handlers (+) SetToBag({h})

\* A handler resumes from its await.
Resumed(h) == handlers (-) SetToBag({h})

\* A read of the note is between its findUnique and its response.
InFlight(id) == \E h \in BagToSet(handlers) : h.req.id = id

\* A read request arrives: lines 104-147, findUnique and the checks up to the
\* response or to the update the handler awaits next.
GetFind ==
    /\ BagCardinality(handlers) < NumReqs
    /\ \E id \in NoteIds, password \in ReadPasswords :
         LET request == [op |-> "get", id |-> id, password |-> password]
             found   == FindUnique(id)
             outcome == GetOutcome(found, password, now)
         IN  /\ okReads[id] < MaxReads
             /\ overlapped' = [overlapped EXCEPT ![id] = @ \/ InFlight(id)]
             /\ IF outcome \in {"notfound", "destroyed", "pwrequired", "pwinvalid"}
                THEN /\ last' = [req |-> request, resp |-> EarlyResponse(outcome),
                                 found |-> found, late |-> PastExpiry(found, now)]
                     /\ handlers' = handlers
                ELSE /\ handlers' = Await([pc |-> outcome, req |-> request,
                                           note |-> found,
                                           late |-> PastExpiry(found, now),
                                           updatedNote |-> NoNote])
                     /\ last' = last
    /\ UNCHANGED <<notes, now, links, createdWith, okReads, delAcked>>
    /\ UNCHANGED clientVars

\* prisma.secureNote.update({ where: { id }, data }) on a row that exists; rows
\* are never removed, so the row a handler found is still there.
Update(id, data) == notes' = [notes EXCEPT ![id] = ApplyUpdate(@, data)]

\* The handler answers and ends.
Respond(h, response) ==
    /\ last' = [req |-> h.req, resp |-> response, found |-> h.note, late |-> h.late]
    /\ handlers' = Resumed(h)

\* Lines 133-137.
GetExpire ==
    /\ \E h \in BagToSet(handlers) :
         /\ h.pc = "expired"
         /\ Update(h.req.id, DestroyData)
         /\ Respond(h, ErrorResponse(410, "Note has expired"))
    /\ UNCHANGED <<now, links, createdWith, okReads, delAcked, overlapped>>
    /\ UNCHANGED clientVars

\* Lines 142-146.
GetExhaust ==
    /\ \E h \in BagToSet(handlers) :
         /\ h.pc = "exhausted"
         /\ Update(h.req.id, DestroyData)
         /\ Respond(h, ErrorResponse(410, "Note has exceeded max views"))
    /\ UNCHANGED <<now, links, createdWith, okReads, delAcked, overlapped>>
    /\ UNCHANGED clientVars

\* The payload is returned.
Succeed(h, updated) ==
    /\ Respond(h, GetResponse(h.note[1], updated))
    /\ okReads' = [okReads EXCEPT ![h.req.id] = @ + 1]

\* Lines 150-173: the increment, then the response, or, when this was the last
\* view, the destruction the handler awaits next.
GetIncrement ==
    /\ \E h \in BagToSet(handlers) :
         LET id == h.req.id IN
         /\ h.pc = "increment"
         /\ Update(id, IncrementData(h.note[1]))
         /\ IF LastView(h.note[1], notes'[id])
            THEN /\ handlers' = Resumed(h) (+)
                       SetToBag({[h EXCEPT !.pc = "destroy",
                                           !.updatedNote = Some(notes'[id])]})
                 /\ UNCHANGED <<last, okReads>>
            ELSE Succeed(h, notes'[id])
    /\ UNCHANGED <<now, links, createdWith, delAcked, overlapped>>
    /\ UNCHANGED clientVars

\* Lines 157-173: the last view's destruction, then the response.
GetDestroy ==
    /\ \E h \in BagToSet(handlers) :
         /\ h.pc = "destroy"
         /\ Update(h.req.id, DestroyData)
         /\ Succeed(h, h.updatedNote[1])
    /\ UNCHANGED <<now, links, createdWith, delAcked, overlapped>>
    /\ UNCHANGED clientVars

\* Lines 157-177 when the last view's destruction fails: the update of lines
\* 157-160 rejects after the increment of lines 150-153 was committed, and the
\* catch answers 500 with the row left not destroyed.
GetInterrupt ==
    /\ \E h \in BagToSet(handlers) :
         /\ h.pc = "destroy"
         /\ Respond(h, ErrorResponse(500, "Failed to fetch note"))
    /\ UNCHANGED <<notes, now, links, createdWith, okReads, delAcked, overlapped>>
    /\ UNCHANGED clientVars

-----------------------------------------------------------------------------
(* POST /notes/:id/verify and DELETE /notes/:id *)

\* Lines 77-94: the verify handler's response to the row findUnique returned.
VerifyResponse(found, password) ==
    IF found = NoNote THEN ErrorResponse(404, "Note not found")
    ELSE LET n == found[1] IN
         IF ~Gated(n) THEN [status |-> 200, requiresPassword |-> FALSE]
         ELSE IF ~Truthy(password) THEN GateResponse("Password required")
         ELSE IF ~verifyPassword(password[1], n.passwordHash[1], n.salt[1])
              THEN GateResponse("Invalid password")
         ELSE [status |-> 200, valid |-> TRUE]

\* Verify counting a view when it answers with success.
VerifyCountingView ==
    /\ \E id \in NoteIds, password \in ReadPasswords :
         LET found == FindUnique(id)
             resp  == VerifyResponse(found, password)
         IN  /\ last' = [req  |-> [op |-> "verify", id |-> id, password |-> password],
                         resp |-> resp, found |-> found,
                         late |-> PastExpiry(found, now)]
             /\ IF found # NoNote /\ resp.status = 200
                THEN Update(id, IncrementData(found[1]))
                ELSE notes' = notes
    /\ UNCHANGED <<now, handlers, links, createdWith, okReads, delAcked, overlapped>>
    /\ UNCHANGED clientVars

\* router.post('/:id/verify')
Verify ==
    /\ \E id \in NoteIds, password \in ReadPasswords :
         last' = [req  |-> [op |-> "verify", id |-> id, password |-> password],
                  resp |-> VerifyResponse(FindUnique(id), password),
                  found |-> FindUnique(id),
                  late |-> PastExpiry(FindUnique(id), now)]
    /\ UNCHANGED <<notes, now, handlers, links, createdWith, okReads, delAcked, overlapped>>
    /\ UNCHANGED clientVars

\* router.delete('/:id'): update throws when no row has the id, and the catch
\* answers 500.
Delete ==
    /\ \E id \in NoteIds :
         IF id \in DOMAIN notes
         THEN /\ Update(id, DestroyData)
              /\ last' = [req  |-> [op |-> "delete", id |-> id],
                          resp |-> [status |-> 200, success |-> TRUE],
                          found |-> NoNote, late |-> FALSE]
              /\ delAcked' = [delAcked EXCEPT ![id] = TRUE]
         ELSE /\ last' = [req  |-> [op |-> "delete", id |-> id],
                          resp |-> ErrorResponse(500, "Failed to delete note"),
                          found |-> NoNote, late |-> FALSE]
              /\ UNCHANGED <<notes, delAcked>>
    /\ UNCHANGED <<now, handlers, links, createdWith, okReads, overlapped>>
    /\ UNCHANGED clientVars

\* getNote (the client): the error it throws for a read's response, or "none"
\* when it returns the response's body.
getNoteError(resp) ==
    IF resp.status = 200 THEN "none"
    ELSE IF resp.status = 404 THEN "Note not found"
    ELSE IF resp.status = 401
         THEN IF "requiresPassword" \in DOMAIN resp /\ resp.requiresPassword
              THEN "PASSWORD_REQUIRED"
              ELSE "Invalid password"
    ELSE IF resp.status = 410 THEN "Note has expired or been destroyed"
    ELSE resp.error

\* deleteNote (the client): the error it throws for a delete's response.
deleteNoteError(resp) ==
    IF resp.status = 200 THEN "none" ELSE "Failed to delete note"

\* Tick with a sweep that flags the notes the clock has passed.
TickSweep ==
    /\ now < MaxTime
    /\ now' = now + 1
    /\ notes' = [i \in DOMAIN notes |->
                  IF Expired(notes[i], now') THEN ApplyUpdate(notes[i], DestroyData)
                  ELSE notes[i]]
    /\ UNCHANGED <<handlers, last, links, createdWith, okReads, delAcked, overlapped>>
    /\ UNCHANGED clientVars

\* Time passes.
Tick ==
    /\ now < MaxTime
    /\ now' = now + 1
    /\ UNCHANGED <<notes, handlers, last, links, createdWith, okReads, delAcked, overlapped>>
    /\ UNCHANGED clientVars

-----------------------------------------------------------------------------
(* The system *)

InitServer ==
    /\ notes = [i \in {} |-> i]
    /\ now = 0
    /\ handlers = EmptyBag
    /\ last = [req |-> NoReq, resp |-> NoResp, found |-> NoNote, late |-> FALSE]
    /\ links = [i \in {} |-> i]
    /\ createdWith = [i \in NoteIds |-> None]
    /\ okReads = [i \in NoteIds |-> 0]
    /\ delAcked = [i \in NoteIds |-> FALSE]
    /\ overlapped = [i \in NoteIds |-> FALSE]

\* No codec call has been made.
IdleCodec == plaintext = None /\ encrypted = None /\ args = None /\ decrypted = None

\* No view page is open.
IdlePage ==
    /\ location = None /\ hasLoadedRef = FALSE /\ lifecycle = <<>> /\ requests = <<>>
    /\ pending = EmptyBag /\ page = None /\ link = None /\ edited = FALSE

\* No text has been scanned.
IdleScan == scanned = None /\ analysis = None

IdleForm == form = None /\ attempt = None

Init == InitServer /\ IdleCodec /\ IdlePage /\ IdleScan /\ IdleForm

\* A request arrives and its handler runs to its first await or to its response.
Arrive ==
    \/ SubmitCreate
    \/ CreateRaw
    \/ Verify
    \/ Delete
    \/ GetFind

\* A read handler resumes from an await.
Resume ==
    \/ GetExpire
    \/ GetExhaust
    \/ GetIncrement
    \/ GetDestroy

Next == Tick \/ Arrive \/ Resume

\* Requests overlap freely.
Spec == Init /\ [][Next]_vars

\* The server with reads that can fail between the last view's increment and
\* its destruction.
NextInterrupted == Next \/ GetInterrupt

SpecInterrupted == Init /\ [][NextInterrupted]_vars

-----------------------------------------------------------------------------
(* The encryption codec: encrypt and decrypt over Web Crypto, base64 and UTF-8 *)
(* A byte array is a sequence of 0..255, a base64 string a sequence of its     *)
(* characters, a text a sequence of code points.                               *)

\* What a call returned, or what it threw.
Returned(v) == [ok |-> TRUE, value |-> v]
Thrown(e) == [ok |-> FALSE, error |-> e]

\* The base64 alphabet in the order of its values.
B64Alphabet ==
    <<"A", "B", "C", "D", "E", "F", "G", "H", "I", "J", "K", "L", "M", "N", "O", "P",
      "Q", "R", "S", "T", "U", "V", "W", "X", "Y", "Z", "a", "b", "c", "d", "e", "f",
      "g", "h", "i", "j", "k", "l", "m", "n", "o", "p", "q", "r", "s", "t", "u", "v",
      "w", "x", "y", "z", "0", "1", "2", "3", "4", "5", "6", "7", "8", "9", "+", "/">>

B64Chars == {B64Alphabet[i] : i \in 1..Len(B64Alphabet)}
B64Char(v) == B64Alphabet[v + 1]
B64Value(c) == (CHOOSE i \in 1..Len(B64Alphabet) : B64Alphabet[i] = c) - 1

\* btoa on a binary string held as its char codes.
RECURSIVE btoa(_)
btoa(bytes) ==
    IF bytes = <<>> THEN <<>>
    ELSE IF Len(bytes) = 1
    THEN <<B64Char(bytes[1] \div 4), B64Char((bytes[1] % 4) * 16), "=", "=">>
    ELSE IF Len(bytes) = 2
    THEN <<B64Char(bytes[1] \div 4),
           B64Char((bytes[1] % 4) * 16 + bytes[2] \div 16),
           B64Char((bytes[2] % 16) * 4), "=">>
    ELSE <<B64Char(bytes[1] \div 4),
           B64Char((bytes[1] % 4) * 16 + bytes[2] \div 16),
           B64Char((bytes[2] % 16) * 4 + bytes[3] \div 64),
           B64Char(bytes[3] % 64)>> \o btoa(SubSeq(bytes, 4, Len(bytes)))

\* Lines 119-126: String.fromCharCode of each byte, then btoa.
arrayBufferToBase64(buffer) == btoa(buffer)

\* atob's first step: when the length is a multiple of four, one or two
\* closing '=' are dropped.
StripPadding(s) ==
    IF s # <<>> /\ Len(s) % 4 = 0 /\ s[Len(s)] = "="
    THEN IF s[Len(s) - 1] = "=" THEN SubSeq(s, 1, Len(s) - 2)
         ELSE SubSeq(s, 1, Len(s) - 1)
    ELSE s

\* The bytes of a string of alphabet characters, the bits left over dropped.
RECURSIVE B64Decode(_)
B64Decode(s) ==
    IF Len(s) < 2 THEN <<>>
    ELSE LET b1 == B64Value(s[1]) * 4 + B64Value(s[2]) \div 16 IN
         IF Len(s) = 2 THEN <<b1>>
         ELSE LET b2 == (B64Value(s[2]) % 16) * 16 + B64Value(s[3]) \div 4 IN
              IF Len(s) = 3 THEN <<b1, b2>>
              ELSE <<b1, b2, (B64Value(s[3]) % 4) * 64 + B64Value(s[4])>>
                   \o B64Decode(SubSeq(s, 5, Len(s)))

\* atob (forgiving-base64 decode): throws on a length of 4n + 1 and on any
\* character outside the alphabet, a '=' left after the first step included.
atob(s) ==
    LET t == StripPadding(s) IN
    IF Len(t) % 4 = 1 \/ \E i \in 1..Len(t) : t[i] \notin B64Chars
    THEN Thrown("InvalidCharacterError")
    ELSE Returned(B64Decode(t))

\* The test of the regular expression /[^A-Za-z0-9+/=]/ negated.
IsBase64Char(c) == c \in B64Chars \cup {"="}

\* Lines 131-139: the other characters are removed, then atob.
base64ToArrayBuffer(base64) == atob(SelectSeq(base64, IsBase64Char))

\* new TextEncoder().encode: UTF-8 of code points up to U+FFFF.
RECURSIVE Utf8Encode(_)
Utf8Encode(chars) ==
    IF chars = <<>> THEN <<>>
    ELSE LET c == Head(chars) IN
         (IF c < 128 THEN <<c>>
          ELSE IF c < 2048 THEN <<192 + c \div 64, 128 + (c % 64)>>
          ELSE <<224 + c \div 4096, 128 + ((c \div 64) % 64), 128 + (c % 64)>>)
         \o Utf8Encode(Tail(chars))

\* A UTF-8 continuation byte at position i.
Continues(bytes, i) == i <= Len(bytes) /\ bytes[i] \in 128..191

\* The second byte a three-byte lead allows.
SecondOfThree(bytes) ==
    /\ Continues(bytes, 2)
    /\ bytes[1] = 224 => bytes[2] >= 160
    /\ bytes[1] = 237 => bytes[2] <= 159

\* The UTF-8 decoder of a TextDecoder that is not fatal: every ill-formed
\* maximal subpart becomes U+FFFD. Sequences of up to three bytes; the lead
\* bytes of four-byte sequences are not among the model's bytes.
RECURSIVE Utf8Scan(_)
Utf8Scan(bytes) ==
    IF bytes = <<>> THEN <<>>
    ELSE LET b == bytes[1]
             skip(n) == SubSeq(bytes, n + 1, Len(bytes))
         IN  IF b < 128 THEN <<b>> \o Utf8Scan(skip(1))
             ELSE IF b \in 194..223 /\ Continues(bytes, 2)
             THEN <<(b - 192) * 64 + (bytes[2] - 128)>> \o Utf8Scan(skip(2))
             ELSE IF b \in 224..239 /\ SecondOfThree(bytes) /\ Continues(bytes, 3)
             THEN <<(b - 224) * 4096 + (bytes[2] - 128) * 64 + (bytes[3] - 128)>>
                  \o Utf8Scan(skip(3))
             ELSE IF b \in 224..239 /\ SecondOfThree(bytes)
             THEN <<65533>> \o Utf8Scan(skip(2))
             ELSE <<65533>> \o Utf8Scan(skip(1))

\* new TextDecoder().decode: the decoder's output without a leading byte order
\* mark. It throws for no input (fatal is false).
TextDecode(bytes) ==
    LET chars == Utf8Scan(bytes) IN
    IF chars # <<>> /\ chars[1] = 65279 THEN Tail(chars) ELSE chars

\* crypto.subtle.importKey('raw', keyData, { name: 'AES-GCM' }): AES keys are
\* of 128, 192 or 256 bits.
importKey(keyData) ==
    IF Len(keyData) \in {16, 24, 32} THEN Returned(keyData) ELSE Thrown("DataError")

\* AES-GCM, stood in for by a cipher with the same shape: the ciphertext has
\* the plaintext's length and is undone by the same key and IV only, and the
\* 16-byte tag is a function of key, IV and ciphertext that differs whenever
\* one of them differs, for the keys and IVs of the model (told apart by
\* their first byte and length) and ciphertexts of up to eleven bytes.
KeyStream(key, iv, i) ==
    (key[1] + Len(key) + (IF iv = <<>> THEN 0 ELSE iv[1]) + Len(iv) + i) % 256

GcmCipher(key, iv, plain) ==
    [i \in 1..Len(plain) |-> (plain[i] + KeyStream(key, iv, i)) % 256]

GcmPlain(key, iv, cipher) ==
    [i \in 1..Len(cipher) |-> (cipher[i] + 256 - KeyStream(key, iv, i)) % 256]

GcmTag(key, iv, cipher) ==
    <<key[1], Len(key), IF iv = <<>> THEN 0 ELSE iv[1], Len(iv), Len(cipher)>>
    \o [i \in 1..11 |-> IF i <= Len(cipher) THEN cipher[i] ELSE 0]

\* crypto.subtle.encrypt with tagLength 128: the ciphertext, then the tag.
subtleEncrypt(key, iv, plain) ==
    GcmCipher(key, iv, plain) \o GcmTag(key, iv, GcmCipher(key, iv, plain))

\* crypto.subtle.decrypt with tagLength 128: OperationError when the last 16
\* bytes are not the tag of the rest.
subtleDecrypt(key, iv, combined) ==
    IF Len(combined) < 16 THEN Thrown("OperationError")
    ELSE LET cipher == SubSeq(combined, 1, Len(combined) - 16)
             tag    == SubSeq(combined, Len(combined) - 15, Len(combined))
         IN  IF tag = GcmTag(key, iv, cipher)
             THEN Returned(GcmPlain(key, iv, cipher))
             ELSE Thrown("OperationError")

\* The bytes of what is given to encrypt or returned by decrypt: a string's
\* are its UTF-8.
BytesOf(d) == IF d.kind = "text" THEN Utf8Encode(d.chars) ELSE d.bytes

\* Lines 30-66: encrypt(data) with the key and IV it drew, in bytes and base64.
EncryptionResult(d, key, iv) ==
    LET combined == subtleEncrypt(key, iv, BytesOf(d))
        n        == Len(combined)
    IN  [encryptedData |-> arrayBufferToBase64(SubSeq(combined, 1, n - 16)),
         iv            |-> arrayBufferToBase64(iv),
         authTag       |-> arrayBufferToBase64(SubSeq(combined, n - 15, n)),
         key           |-> arrayBufferToBase64(key)]

\* Lines 71-114: decrypt. The key is decoded and imported and the other three
\* strings decoded before the try block; what crypto.subtle.decrypt throws is
\* caught and replaced, and its result is decoded as text.
decrypt(encryptedData, iv, authTag, keyBase64) ==
    LET keyData        == base64ToArrayBuffer(keyBase64)
        key            == importKey(keyData.value)
        ivArray        == base64ToArrayBuffer(iv)
        encryptedArray == base64ToArrayBuffer(encryptedData)
        tagArray       == base64ToArrayBuffer(authTag)
        result         == subtleDecrypt(key.value, ivArray.value,
                                        encryptedArray.value \o tagArray.value)
    IN  IF ~keyData.ok THEN keyData
        ELSE IF ~key.ok THEN key
        ELSE IF ~ivArray.ok THEN ivArray
        ELSE IF ~encryptedArray.ok THEN encryptedArray
        ELSE IF ~tagArray.ok THEN tagArray
        ELSE IF ~result.ok
        THEN Thrown("Decryption failed. Data may be corrupted or key is incorrect.")
        ELSE Returned([kind |-> "text", chars |-> TextDecode(result.value)])

\* What is encrypted: texts, one of them starting with U+FEFF, and files'
\* bytes, some of them no UTF-8.
Plaintexts ==
    {[kind |-> "text", chars |-> c] : c \in {<<104, 105>>, <<233>>, <<65279, 104>>}}
    \cup {[kind |-> "bytes", bytes |-> b] :
            b \in {<<104, 105>>, <<255>>, <<195, 169>>, <<195, 40>>, <<0, 128>>}}

CodecKeys == {[i \in 1..32 |-> 7], [i \in 1..32 |-> 9]}   \* outcomes of generateKey
CodecIVs == {[i \in 1..12 |-> 1], [i \in 1..12 |-> 2]}    \* outcomes of getRandomValues

\* The arguments the view page gives decrypt: the note's three fields and the
\* share link's key.
ArgsOf(e) ==
    [encryptedData |-> e.encryptedData, iv |-> e.iv, authTag |-> e.authTag,
     keyBase64 |-> e.key]

\* The ways the arguments reach decrypt damaged: another key, a key of five
\* bytes, a string cut to a length of 4n + 1, another IV, another tag,
\* another ciphertext.
Damaged(a) ==
    { [a EXCEPT !.keyBase64 = arrayBufferToBase64([i \in 1..32 |-> 8])],
      [a EXCEPT !.keyBase64 = arrayBufferToBase64([i \in 1..5 |-> 7])],
      [a EXCEPT !.keyBase64 = SubSeq(@, 1, 41)],
      [a EXCEPT !.iv = SubSeq(@, 1, 13)],
      [a EXCEPT !.iv = arrayBufferToBase64([i \in 1..12 |-> 3])],
      [a EXCEPT !.iv = arrayBufferToBase64([i \in 1..8 |-> 1])],
      [a EXCEPT !.authTag = arrayBufferToBase64([i \in 1..16 |-> 0])],
      [a EXCEPT !.encryptedData = arrayBufferToBase64(<<1, 2, 3>>)],
      [a EXCEPT !.encryptedData = <<"A">>] }

\* encrypt is called on the plaintext.
Encrypt ==
    /\ encrypted = None
    /\ \E key \in CodecKeys, iv \in CodecIVs :
         /\ encrypted' = Some(EncryptionResult(plaintext, key, iv))
         /\ args' = Some(ArgsOf(encrypted'[1]))
    /\ UNCHANGED <<plaintext, decrypted, serverVars, pageVars, scanVars, formVars>>

\* The link or the stored fields are damaged on the way.
Damage ==
    /\ encrypted # None /\ decrypted = None
    /\ args = Some(ArgsOf(encrypted[1]))
    /\ \E a \in Damaged(args[1]) : args' = Some(a)
    /\ UNCHANGED <<plaintext, encrypted, decrypted, serverVars, pageVars, scanVars, formVars>>

\* decrypt is called on the arguments.
Decrypt ==
    /\ args # None /\ decrypted = None
    /\ decrypted' = Some(decrypt(args[1].encryptedData, args[1].iv,
                                 args[1].authTag, args[1].keyBase64))
    /\ UNCHANGED <<plaintext, encrypted, args, serverVars, pageVars, scanVars, formVars>>

InitCodec ==
    /\ InitServer /\ IdlePage /\ IdleScan /\ IdleForm
    /\ plaintext \in Plaintexts
    /\ encrypted = None /\ args = None /\ decrypted = None

NextCodec == Encrypt \/ Damage \/ Decrypt

\* The codec alone: one plaintext encrypted and decrypted.
SpecCodec == InitCodec /\ [][NextCodec]_vars

-----------------------------------------------------------------------------
(* The share link and the view page. A URL is a sequence of its characters. *)

\* The characters of the model that encodeURIComponent escapes.
Escaped == {"+", "/", "=", "#", "&", "?", " ", "%", "*"}

\* The escape of one of them: % and the two hex digits of its code.
Escape(c) ==
    CASE c = "+" -> <<"%", "2", "B">>
      [] c = "/" -> <<"%", "2", "F">>
      [] c = "=" -> <<"%", "3", "D">>
      [] c = "#" -> <<"%", "2", "3">>
      [] c = "&" -> <<"%", "2", "6">>
      [] c = "?" -> <<"%", "3", "F">>
      [] c = " " -> <<"%", "2", "0">>
      [] c = "%" -> <<"%", "2", "5">>
      [] c = "*" -> <<"%", "2", "A">>

\* encodeURIComponent: letters and digits stay, the others are escaped. ('*'
\* stays as well; its escape is one decodeURIComponent undoes.)
RECURSIVE encodeURIComponent(_)
encodeURIComponent(s) ==
    IF s = <<>> THEN <<>>
    ELSE (IF Head(s) \in Escaped \ {"*"} THEN Escape(Head(s)) ELSE <<Head(s)>>)
         \o encodeURIComponent(Tail(s))

\* decodeURIComponent: every escape is undone; a % that starts no escape makes
\* it throw URIError.
RECURSIVE decodeURIComponent(_)
decodeURIComponent(s) ==
    IF s = <<>> THEN Returned(<<>>)
    ELSE IF Head(s) # "%"
    THEN LET rest == decodeURIComponent(Tail(s)) IN
         IF rest.ok THEN Returned(<<Head(s)>> \o rest.value) ELSE rest
    ELSE IF Len(s) >= 3 /\ \E c \in Escaped : Escape(c) = SubSeq(s, 1, 3)
    THEN LET c    == CHOOSE e \in Escaped : Escape(e) = SubSeq(s, 1, 3)
             rest == decodeURIComponent(SubSeq(s, 4, Len(s)))
         IN  IF rest.ok THEN Returned(<<c>> \o rest.value) ELSE rest
    ELSE Thrown("URI malformed")

\* String.prototype.indexOf, counted from 1; 0 when the character is not there.
IndexOf(s, c) ==
    IF \E i \in 1..Len(s) : s[i] = c
    THEN CHOOSE i \in 1..Len(s) : s[i] = c /\ \A j \in 1..(i - 1) : s[j] # c
    ELSE 0

\* noteUrl with the fragment put before the query string.
noteUrlFragmentFirst(noteId, password, encryptionKey) ==
    <<"/", "n", "o", "t", "e", "/">> \o noteId
    \o <<"#">> \o encodeURIComponent(encryptionKey)
    \o (IF Truthy(password)
        THEN <<"?", "p", "a", "s", "s", "w", "o", "r", "d", "=">> \o encodeURIComponent(password[1])
        ELSE <<>>)

\* NoteCreated, lines 404-412: the share link after the origin.
noteUrl(noteId, password, encryptionKey) ==
    <<"/", "n", "o", "t", "e", "/">> \o noteId
    \o (IF Truthy(password)
        THEN <<"?", "p", "a", "s", "s", "w", "o", "r", "d", "=">> \o encodeURIComponent(password[1])
        ELSE <<>>)
    \o <<"#">> \o encodeURIComponent(encryptionKey)

\* The browser's parse of the URL opened and the route /note/:id: the fragment
\* starts at the first '#', the query at the first '?' before it; search and
\* hash are empty when nothing follows their mark.
Location(url) ==
    LET h        == IndexOf(url, "#")
        hash     == IF h = 0 THEN <<>> ELSE SubSeq(url, h, Len(url))
        front    == IF h = 0 THEN url ELSE SubSeq(url, 1, h - 1)
        q        == IndexOf(front, "?")
        search   == IF q = 0 THEN <<>> ELSE SubSeq(front, q, Len(front))
        pathname == IF q = 0 THEN front ELSE SubSeq(front, 1, q - 1)
        segment  == SubSeq(pathname, 7, Len(pathname))
    IN  [id     |-> IF /\ SubSeq(pathname, 1, 6) = <<"/", "n", "o", "t", "e", "/">>
                       /\ segment # <<>> /\ IndexOf(segment, "/") = 0
                    THEN Some(segment) ELSE None,
         search |-> IF Len(search) <= 1 THEN <<>> ELSE search,
         hash   |-> IF Len(hash) <= 1 THEN <<>> ELSE hash]

\* String.prototype.split('&')[0]
FirstPart(s) == IF IndexOf(s, "&") = 0 THEN s ELSE SubSeq(s, 1, IndexOf(s, "&") - 1)

\* The test /^[A-Za-z0-9+/=]+$/
LooksLikeBase64(s) == s # <<>> /\ \A i \in 1..Len(s) : IsBase64Char(s[i])

\* Lines 53-71 and 130-148 of ViewNote: the key is taken from the hash; it is missing, or
\* the code throws, or the key is there.
ExtractKey(loc) ==
    LET hash    == SubSeq(loc.hash, 2, Len(loc.hash))
        decoded == decodeURIComponent(hash)
    IN  IF hash = <<>> THEN [kind |-> "missing"]
        ELSE IF ~decoded.ok THEN [kind |-> "thrown", error |-> decoded.error]
        ELSE IF ~LooksLikeBase64(FirstPart(decoded.value))
        THEN [kind |-> "thrown", error |-> "Invalid encryption key format in URL"]
        ELSE [kind |-> "key", value |-> FirstPart(decoded.value)]

MaxRequests == 3    \* read requests one view page sends

PageIds == {<<"c", "1">>}                       \* ids of the notes linked to
LinkChars == {"Z", "+", "/", "="}          \* characters of the links' keys
LinkKeys == {<<a>> : a \in LinkChars} \cup {<<a, b>> : a, b \in LinkChars}
LinkPasswords == {None, Some(<<"p", "w">>), Some(<<"#", "&", "?">>)}
TypedPasswords == {<<"p", "w">>, <<"x">>}       \* typed in the password form

\* URLs the app did not build: no fragment, an empty one, a % that starts no
\* escape, a character that is not base64, nothing before the first '&', an
\* escaped '&' first, and a key with a stray '&' after it.
OtherUrls ==
    {<<"/", "n", "o", "t", "e", "/">> \o <<"c", "1">> \o f :
       f \in {<<>>, <<"#">>, <<"#", "Z", "%">>, <<"#", "Z", "*">>, <<"#", "&", "Z">>,
              <<"#", "%", "2", "6", "Z">>, <<"#", "Z", "9", "&", "x">>}}

\* Hashes the address bar is changed to.
OtherHashes == {<<>>, <<"#", "Z", "*">>, <<"#", "9", "9">>}

\* The results of getNote that the page tells apart: the note, or the error
\* thrown.
GetNoteResults ==
    {"none", "PASSWORD_REQUIRED", "Note not found", "Note has expired or been destroyed"}

\* The component's state when it mounts (lines 23-32).
MountedPage ==
    [loading |-> TRUE, error |-> None, requiresPassword |-> FALSE,
     passwordError |-> None, decryptedContent |-> FALSE, handled |-> "mount"]

\* Lines 189-259: what the component renders, and the message shown with it.
\* The password form comes first and shows passwordError only.
View(p) ==
    IF p.requiresPassword THEN [screen |-> "password", message |-> p.passwordError]
    ELSE IF p.loading THEN [screen |-> "loading", message |-> None]
    ELSE IF p.error # None THEN [screen |-> "error", message |-> p.error]
    ELSE [screen |-> "note", message |-> None]

\* A view page is opened: on a link the app built, or on another URL; React
\* runs the effect once, or (StrictMode) runs it, cleans up and runs it again.
InitPage ==
    /\ InitServer /\ IdleCodec /\ IdleScan /\ IdleForm
    /\ \/ \E id \in PageIds, key \in LinkKeys, password \in LinkPasswords :
            /\ link = Some([noteId |-> id, encryptionKey |-> key, password |-> password])
            /\ location = Location(noteUrl(id, password, key))
       \/ \E url \in OtherUrls : link = None /\ location = Location(url)
    /\ lifecycle \in {<<"run">>, <<"run", "cleanup", "run">>}
    /\ hasLoadedRef = FALSE /\ requests = <<>> /\ pending = EmptyBag
    /\ page = MountedPage /\ edited = FALSE

\* getNote(id, password) is called: the request goes out and the call is awaited.
GetNoteCalled(id, password, from, key) ==
    /\ Len(requests) < MaxRequests
    /\ requests' = Append(requests, [id |-> id, password |-> password, from |-> from])
    /\ pending' = pending (+) SetToBag({[from |-> from, key |-> key]})

\* Lines 36-116: the effect runs; loadNote up to its first await.
EffectRun ==
    /\ lifecycle # <<>> /\ Head(lifecycle) = "run"
    /\ lifecycle' = Tail(lifecycle)
    /\ LET key == ExtractKey(location) IN
       IF hasLoadedRef
       THEN UNCHANGED <<hasLoadedRef, requests, pending, page>>
       ELSE IF location.id = None
       THEN /\ hasLoadedRef' = TRUE
            /\ page' = [page EXCEPT !.error = Some("Invalid note ID"),
                                    !.loading = FALSE, !.handled = "effect"]
            /\ UNCHANGED <<requests, pending>>
       ELSE IF key.kind = "missing"
       THEN /\ hasLoadedRef' = TRUE
            /\ page' = [page EXCEPT
                          !.error = Some("Encryption key not found in URL. Please use the share link provided when the note was created."),
                          !.loading = FALSE, !.handled = "effect"]
            /\ UNCHANGED <<requests, pending>>
       ELSE IF key.kind = "thrown"
       THEN /\ hasLoadedRef' = FALSE
            /\ page' = [page EXCEPT !.error = Some(key.error),
                                    !.loading = FALSE, !.handled = "effect"]
            /\ UNCHANGED <<requests, pending>>
       ELSE /\ hasLoadedRef' = TRUE
            /\ GetNoteCalled(location.id[1], None, "load", key.value)
            /\ page' = [page EXCEPT !.handled = "effect"]
    /\ UNCHANGED <<location, link, edited, serverVars, codecVars, scanVars, formVars>>

\* Lines 112-114: the effect's cleanup.
EffectCleanup ==
    /\ lifecycle # <<>> /\ Head(lifecycle) = "cleanup"
    /\ lifecycle' = Tail(lifecycle)
    /\ hasLoadedRef' = FALSE
    /\ UNCHANGED <<location, requests, pending, page, link, edited>>
    /\ UNCHANGED <<serverVars, codecVars, scanVars, formVars>>

\* Lines 76-108: loadNote resumes from getNote; the note is decrypted, or the
\* password form is asked for, or the error is shown and the flag reset.
LoadSettles ==
    /\ \E p \in BagToSet(pending), result \in GetNoteResults, decryptOk \in BOOLEAN :
         /\ p.from = "load"
         /\ pending' = pending (-) SetToBag({p})
         /\ IF result = "none" /\ decryptOk
            THEN /\ page' = [page EXCEPT !.decryptedContent = TRUE, !.loading = FALSE,
                                         !.handled = "loaded"]
                 /\ UNCHANGED hasLoadedRef
            ELSE IF result = "PASSWORD_REQUIRED"
            THEN /\ page' = [page EXCEPT !.requiresPassword = TRUE, !.loading = FALSE,
                                         !.handled = "loaded"]
                 /\ UNCHANGED hasLoadedRef
            ELSE /\ page' = [page EXCEPT
                               !.error = Some(IF result = "none" THEN "Decryption failed. Data may be corrupted or key is incorrect."
                                              ELSE result),
                               !.loading = FALSE, !.handled = "loaded"]
                 /\ hasLoadedRef' = FALSE
    /\ UNCHANGED <<location, lifecycle, requests, link, edited>>
    /\ UNCHANGED <<serverVars, codecVars, scanVars, formVars>>

\* Lines 118-151: the password form is submitted; handlePasswordSubmit up to
\* its await. The form is there when requiresPassword is set, its button when
\* nothing is loading and a password is typed. React runs the effects that are
\* due before it handles the event.
PasswordSubmit ==
    /\ lifecycle = <<>>
    /\ page.requiresPassword /\ ~page.loading
    /\ \E typed \in TypedPasswords :
         LET key == ExtractKey(location) IN
         IF location.id = None
         THEN /\ page' = [page EXCEPT !.passwordError = None,
                                      !.error = Some("Invalid note ID"),
                                      !.loading = FALSE, !.handled = "submit"]
              /\ UNCHANGED <<requests, pending>>
         ELSE IF key.kind = "missing"
         THEN /\ page' = [page EXCEPT !.passwordError = None,
                                      !.error = Some("Encryption key not found in URL."),
                                      !.loading = FALSE, !.handled = "submit"]
              /\ UNCHANGED <<requests, pending>>
         ELSE IF key.kind = "thrown"
         THEN /\ page' = [page EXCEPT !.passwordError = Some(key.error),
                                      !.loading = FALSE, !.handled = "submit"]
              /\ UNCHANGED <<requests, pending>>
         ELSE /\ GetNoteCalled(location.id[1], Some(typed), "submit", key.value)
              /\ page' = [page EXCEPT !.passwordError = None, !.loading = TRUE,
                                      !.handled = "submit"]
    /\ UNCHANGED <<location, hasLoadedRef, lifecycle, link, edited>>
    /\ UNCHANGED <<serverVars, codecVars, scanVars, formVars>>

\* Lines 151-172: handlePasswordSubmit resumes from getNote.
SubmitSettles ==
    /\ \E p \in BagToSet(pending), result \in GetNoteResults, decryptOk \in BOOLEAN :
         /\ p.from = "submit"
         /\ pending' = pending (-) SetToBag({p})
         /\ IF result = "none" /\ decryptOk
            THEN page' = [page EXCEPT !.decryptedContent = TRUE,
                                      !.requiresPassword = FALSE, !.loading = FALSE,
                                      !.handled = "submitted"]
            ELSE page' = [page EXCEPT
                            !.passwordError = Some(IF result = "none"
                                                   THEN "Decryption failed. Data may be corrupted or key is incorrect." ELSE result),
                            !.loading = FALSE, !.handled = "submitted"]
    /\ UNCHANGED <<location, hasLoadedRef, lifecycle, requests, link, edited>>
    /\ UNCHANGED <<serverVars, codecVars, scanVars, formVars>>

\* The hash in the address bar is changed: location.hash is a dependency of
\* the effect, so React cleans up and runs it again.
ChangeHash ==
    /\ ~edited /\ edited' = TRUE
    /\ \E hash \in OtherHashes : location' = [location EXCEPT !.hash = hash]
    /\ lifecycle' = lifecycle \o <<"cleanup", "run">>
    /\ UNCHANGED <<hasLoadedRef, requests, pending, page, link>>
    /\ UNCHANGED <<serverVars, codecVars, scanVars, formVars>>

NextPage ==
    \/ EffectRun
    \/ EffectCleanup
    \/ LoadSettles
    \/ PasswordSubmit
    \/ SubmitSettles
    \/ ChangeHash

\* One view page from its opening on.
SpecPage == InitPage /\ [][NextPage]_vars

-----------------------------------------------------------------------------
(* The threat scanner. A text is a sequence of its characters; a regular
   expression is a tree, matched the way the engine does it: by backtracking,
   the alternatives tried in their order of priority. *)

UpperCase == {B64Alphabet[k] : k \in 1..26}
LowerCase == {B64Alphabet[k] : k \in 27..52}
Digit == {B64Alphabet[k] : k \in 53..62}                 \* \d
Word == UpperCase \cup LowerCase \cup Digit \cup {"_"}    \* \w
Space == {" ", "\t", "\n"}                                \* \s

\* The two cases of a letter (the flag i).
BothCases(c) ==
    IF c \in UpperCase
    THEN {c, B64Alphabet[(CHOOSE k \in 1..26 : B64Alphabet[k] = c) + 26]}
    ELSE IF c \in LowerCase
    THEN {c, B64Alphabet[(CHOOSE k \in 27..52 : B64Alphabet[k] = c) - 26]}
    ELSE {c}

Class(set) == [t |-> "class", set |-> set]               \* [...]
AnyChar == [t |-> "any"]                                 \* .
Boundary == [t |-> "b"]                                  \* \b
Cat(parts) == [t |-> "cat", parts |-> parts]             \* one after the other
Alt(opts) == [t |-> "alt", opts |-> opts]                \* a|b
Rep(of, min, max) == [t |-> "rep", of |-> of, min |-> min, max |-> max]  \* {min,max}, greedy
Opt(of) == Rep(of, 0, 1)                                 \* ?
Plus(of) == Rep(of, 1, -1)                               \* +  (max -1: no limit)
AtLeast(of, min) == Rep(of, min, -1)                     \* {min,}
Times(of, n) == Rep(of, n, n)                            \* {n}
LitI(str) == Cat([k \in 1..Len(str) |-> Class(BothCases(str[k]))])

\* \b holds before position i of s when exactly one of the characters around
\* it is a word character.
AtBoundary(s, i) ==
    (i > 1 /\ s[i - 1] \in Word) # (i <= Len(s) /\ s[i] \in Word)

\* The positions where a match of re that starts at position i of s can end
\* (the position after its last character), in the order the engine tries them.
RECURSIVE Ends(_, _, _)
RECURSIVE EndsCat(_, _, _)
RECURSIVE ThenCat(_, _, _)
RECURSIVE EndsAlt(_, _, _)
RECURSIVE EndsRep(_, _, _, _, _)
RECURSIVE ThenRep(_, _, _, _, _)
Ends(re, s, i) ==
    CASE re.t = "class" -> IF i <= Len(s) /\ s[i] \in re.set THEN <<i + 1>> ELSE <<>>
      [] re.t = "any"   -> IF i <= Len(s) /\ s[i] # "\n" THEN <<i + 1>> ELSE <<>>
      [] re.t = "b"     -> IF AtBoundary(s, i) THEN <<i>> ELSE <<>>
      [] re.t = "cat"   -> EndsCat(re.parts, s, i)
      [] re.t = "alt"   -> EndsAlt(re.opts, s, i)
      [] re.t = "rep"   -> EndsRep(re.of, re.min, re.max, s, i)
EndsCat(parts, s, i) ==
    IF parts = <<>> THEN <<i>> ELSE ThenCat(Ends(Head(parts), s, i), Tail(parts), s)
ThenCat(ends, parts, s) ==
    IF ends = <<>> THEN <<>>
    ELSE EndsCat(parts, s, Head(ends)) \o ThenCat(Tail(ends), parts, s)
EndsAlt(opts, s, i) ==
    IF opts = <<>> THEN <<>> ELSE Ends(Head(opts), s, i) \o EndsAlt(Tail(opts), s, i)
EndsRep(of, min, max, s, i) ==
    (IF max = 0 THEN <<>>
     ELSE ThenRep(SelectSeq(Ends(of, s, i), LAMBDA e : e > i), of, min - 1,
                  IF max > 0 THEN max - 1 ELSE max, s))
    \o (IF min <= 0 THEN <<i>> ELSE <<>>)
ThenRep(ends, of, min, max, s) ==
    IF ends = <<>> THEN <<>>
    ELSE EndsRep(of, min, max, s, Head(ends)) \o ThenRep(Tail(ends), of, min, max, s)

\* RegExp.prototype.exec from lastIndex on: the first position where re
\* matches and where that match ends, or nothing.
RECURSIVE Exec(_, _, _)
Exec(re, s, lastIndex) ==
    IF lastIndex > Len(s) + 1 THEN None
    ELSE IF Ends(re, s, lastIndex) # <<>>
    THEN Some([index |-> lastIndex, end |-> Head(Ends(re, s, lastIndex))])
    ELSE Exec(re, s, lastIndex + 1)

\* All the matches of a /g expression, each with its place; after an empty
\* match the engine moves on by one character.
RECURSIVE MatchRanges(_, _, _)
MatchRanges(re, s, lastIndex) ==
    LET m == Exec(re, s, lastIndex) IN
    IF m = None THEN <<>>
    ELSE <<m[1]>> \o MatchRanges(re, s, IF m[1].end = m[1].index THEN m[1].end + 1
                                        ELSE m[1].end)

\* String.prototype.match with a /g expression: the matched strings, or null.
Match(s, re) ==
    LET ranges == MatchRanges(re, s, 1) IN
    IF ranges = <<>> THEN None
    ELSE [k \in 1..Len(ranges) |-> SubSeq(s, ranges[k].index, ranges[k].end - 1)]

\* String.prototype.replace with a /g expression and a replacement that has
\* no '$' in it.
RECURSIVE ReplaceFrom(_, _, _, _)
ReplaceFrom(s, re, by, lastIndex) ==
    LET m == Exec(re, s, lastIndex) IN
    IF m = None THEN SubSeq(s, lastIndex, Len(s))
    ELSE IF m[1].end = m[1].index
    THEN by \o SubSeq(s, m[1].index, m[1].index) \o ReplaceFrom(s, re, by, m[1].end + 1)
    ELSE SubSeq(s, lastIndex, m[1].index - 1) \o by \o ReplaceFrom(s, re, by, m[1].end)
Replace(s, re, by) == ReplaceFrom(s, re, by, 1)

\* The characters with a meaning of their own in a pattern.
RegexSpecial == {".", "*", "+", "?", "^", "$", "{", "}", "(", ")", "|", "[", "]", "\\"}

\* Lines 185-187
RECURSIVE escapeRegex(_)
escapeRegex(str) ==
    IF str = <<>> THEN <<>>
    ELSE (IF Head(str) \in RegexSpecial THEN <<"\\", Head(str)>> ELSE <<Head(str)>>)
         \o escapeRegex(Tail(str))

\* new RegExp(source, 'g') for a source of escaped and plain characters: an
\* escaped character stands for itself, a plain '.' for any character.
RECURSIVE RegExpParts(_)
RegExpParts(source) ==
    IF source = <<>> THEN <<>>
    ELSE IF Head(source) = "\\" /\ Len(source) >= 2
    THEN <<Class({source[2]})>> \o RegExpParts(SubSeq(source, 3, Len(source)))
    ELSE IF Head(source) = "."
    THEN <<AnyChar>> \o RegExpParts(Tail(source))
    ELSE <<Class({Head(source)})>> \o RegExpParts(Tail(source))
RegExp(source) == Cat(RegExpParts(source))

Separator == Class({"-", "."} \cup Space)      \* [-.\s]
Assign == Plus(Class(Space \cup {":", "="}))   \* [\s:=]+
Token == Plus(Class(Word \cup {"-"}))          \* [\w-]+
Alnum == UpperCase \cup LowerCase \cup Digit

\* Lines 24-97: the rules, in their order.
patterns ==
    << [name |-> "Credit Card", level |-> "critical", category |-> "Financial",
        message |-> "Credit card number detected",
        regex |-> Cat(<<Boundary,
                        Times(Cat(<<Times(Class(Digit), 4), Opt(Class({"-"} \cup Space))>>), 3),
                        Times(Class(Digit), 4), Boundary>>)],
       [name |-> "SSN", level |-> "critical", category |-> "Identity",
        message |-> "Social Security Number detected",
        regex |-> Cat(<<Boundary, Times(Class(Digit), 3), Opt(Class({"-"})),
                        Times(Class(Digit), 2), Opt(Class({"-"})),
                        Times(Class(Digit), 4), Boundary>>)],
       [name |-> "Email with Password", level |-> "critical", category |-> "Credentials",
        message |-> "Password in plain text detected",
        regex |-> Cat(<<Alt(<<LitI(<<"p", "a", "s", "s", "w", "o", "r", "d">>), LitI(<<"p", "w", "d">>), LitI(<<"p", "a", "s", "s">>)>>),
                        Assign, Plus(Class(Word \cup {"@", "$", "%"}))>>)],
       [name |-> "API Key", level |-> "critical", category |-> "Credentials",
        message |-> "API key or secret detected",
        regex |-> Cat(<<Alt(<<Cat(<<LitI(<<"a", "p", "i">>), Opt(Class({"_", "-"})), LitI(<<"k", "e", "y">>)>>),
                              LitI(<<"a", "p", "i", "k", "e", "y">>),
                              Cat(<<LitI(<<"s", "e", "c", "r", "e", "t">>), Opt(Class({"_", "-"})), LitI(<<"k", "e", "y">>)>>)>>),
                        Assign, AtLeast(Class(Word \cup {"-"}), 20)>>)],
       [name |-> "Bearer Token", level |-> "critical", category |-> "Credentials",
        message |-> "Bearer token detected",
        regex |-> Cat(<<LitI(<<"b", "e", "a", "r", "e", "r">>), Plus(Class(Space)),
                        Token, Class({"."}), Token, Class({"."}), Token>>)],
       [name |-> "Bank Account", level |-> "high", category |-> "Financial",
        message |-> "Possible bank account number detected",
        regex |-> Cat(<<Boundary, Rep(Class(Digit), 8, 17), Boundary>>)],
       [name |-> "Phone Number", level |-> "medium", category |-> "Personal",
        message |-> "Phone number detected",
        regex |-> Cat(<<Boundary,
                        Opt(Cat(<<Opt(Class({"+"})), Class({"1"}), Opt(Separator)>>)),
                        Opt(Class({"("})), Times(Class(Digit), 3), Opt(Class({")"})),
                        Opt(Separator), Times(Class(Digit), 3),
                        Opt(Separator), Times(Class(Digit), 4), Boundary>>)],
       [name |-> "IP Address", level |-> "medium", category |-> "Network",
        message |-> "IP address detected",
        regex |-> Cat(<<Boundary,
                        Times(Cat(<<Rep(Class(Digit), 1, 3), Class({"."})>>), 3),
                        Rep(Class(Digit), 1, 3), Boundary>>)],
       [name |-> "Email Address", level |-> "low", category |-> "Personal",
        message |-> "Email address detected",
        regex |-> Cat(<<Boundary, Plus(Class(Alnum \cup {".", "_", "%", "+", "-"})),
                        Class({"@"}), Plus(Class(Alnum \cup {".", "-"})), Class({"."}),
                        AtLeast(Class(UpperCase \cup LowerCase \cup {"|"}), 2),
                        Boundary>>)] >>

\* Lines 142-150
getRiskScore(level) ==
    CASE level = "low" -> 20 [] level = "medium" -> 40
      [] level = "high" -> 70 [] level = "critical" -> 100

\* Math.max with the two values added.
MathSum(a, b) == a + b

\* Math.max
MathMax(a, b) == IF a >= b THEN a ELSE b

\* getRiskLevelFromScore with its second threshold not reached by 70.
getRiskLevelFromScoreAbove(score) ==
    IF score >= 90 THEN "critical"
    ELSE IF score > 70 THEN "high"
    ELSE IF score >= 40 THEN "medium"
    ELSE "low"

\* Lines 155-160
getRiskLevelFromScore(score) ==
    IF score >= 90 THEN "critical"
    ELSE IF score >= 70 THEN "high"
    ELSE IF score >= 40 THEN "medium"
    ELSE "low"

\* '*'.repeat(n)
Stars(n) == [k \in 1..n |-> "*"]

\* The mask of one pattern, as long as the pattern.
MaskOfUncapped(pattern) == Stars(Len(pattern))

\* Lines 172-173
MaskOf(pattern) == Stars(IF Len(pattern) <= 12 THEN Len(pattern) ELSE 12)

\* Lines 165-180
RECURSIVE maskSensitiveData(_, _)
maskSensitiveData(content, alerts) ==
    IF alerts = <<>> THEN content
    ELSE LET alert == Head(alerts) IN
         maskSensitiveData(
            IF alert.level \in {"critical", "high"} /\ alert.pattern # <<>>
            THEN Replace(content, RegExp(escapeRegex(alert.pattern)), MaskOf(alert.pattern))
            ELSE content,
            Tail(alerts))

\* The alert of a rule, with the last of its matches.
AlertOfLastMatch(pattern, matches) ==
    [level |-> pattern.level, category |-> pattern.category,
     message |-> pattern.message, pattern |-> matches[Len(matches)]]

\* Lines 112-118: the alert of a rule that matched.
AlertOf(pattern, matches) ==
    [level |-> pattern.level, category |-> pattern.category,
     message |-> pattern.message, pattern |-> matches[1]]

\* Lines 103-120: the loop over the rules from rule k on.
RECURSIVE ScanFrom(_, _, _, _)
ScanFrom(k, content, alerts, maxRiskScore) ==
    IF k > Len(patterns) THEN [alerts |-> alerts, maxRiskScore |-> maxRiskScore]
    ELSE LET pattern == patterns[k]
             matches == Match(content, pattern.regex)
         IN  IF matches # None
             THEN ScanFrom(k + 1, content,
                           Append(alerts, AlertOf(pattern, matches)),
                           MathMax(maxRiskScore, getRiskScore(pattern.level)))
             ELSE ScanFrom(k + 1, content, alerts, maxRiskScore)

\* Lines 102-137
analyzeThreats(content) ==
    LET found == ScanFrom(1, content, <<>>, 0) IN
    [riskLevel     |-> getRiskLevelFromScore(found.maxRiskScore),
     riskScore     |-> found.maxRiskScore,
     alerts        |-> found.alerts,
     maskedContent |-> IF found.maxRiskScore >= 70
                       THEN Some(maskSensitiveData(content, found.alerts))
                       ELSE None]

\* Pieces of text: one for each rule, and pieces no rule matches by themselves.
Pieces ==
    { <<"h", "e", "l", "l", "o">>, <<"4", "1", "1", "1", "1", "1", "1", "1", "1", "1", "1", "1", "1", "1", "1", "1">>, <<"4", "1", "1", "1", "-", "1", "1", "1", "1", "-", "1", "1", "1", "1", "-", "1", "1", "1", "1">>, <<"1", "2", "3", "-", "4", "5", "-", "6", "7", "8", "9">>, <<"1", "2", "3", "4", "5", "6", "7", "8">>, <<"P", "a", "s", "s", "w", "o", "r", "d", ":", " ", "h", "u", "n", "t", "e", "r", "2">>, <<"B", "e", "a", "r", "e", "r", " ", "a", ".", "b", ".", "c">>, <<"a", "p", "i", "_", "k", "e", "y", "=", "a", "b", "c", "d", "e", "f", "g", "h", "i", "j", "0", "1", "2", "3", "4", "5", "6", "7", "8", "9">>,
      <<"5", "5", "5", "-", "1", "2", "3", "-", "4", "5", "6", "7">>, <<"1", "0", ".", "0", ".", "0", ".", "1">>, <<"a", "@", "b", ".", "c", "o">>, <<"x", "1", "2", "3", "4", "5", "6", "7", "8", "@", "b", ".", "c", "o">> }

\* The texts scanned: a piece, or two pieces put together or a space apart.
Texts ==
    Pieces \cup {a \o sep \o b : a \in Pieces, b \in Pieces, sep \in {<<>>, <<" ">>}}

\* A text is scanned.
InitScan ==
    /\ InitServer /\ IdleCodec /\ IdlePage /\ IdleForm
    /\ scanned \in {Some(text) : text \in Texts}
    /\ analysis = None

\* Lines 28-32 of CreateNote: the content is analysed.
Analyze ==
    /\ analysis = None
    /\ analysis' = Some(analyzeThreats(scanned[1]))
    /\ UNCHANGED <<scanned, serverVars, codecVars, pageVars, formVars>>

NextScan == Analyze

\* The scanner on one text.
SpecScan == InitScan /\ [][NextScan]_vars

-----------------------------------------------------------------------------
(* The create page: CreateNote.tsx. The form's state is the component's     *)
(* useState values and the store's mode; strings typed are sequences of     *)
(* characters, instants are milliseconds.                                   *)

DecimalDigits == <<"0", "1", "2", "3", "4", "5", "6", "7", "8", "9">>

IsDigit(c) == \E i \in 1..10 : DecimalDigits[i] = c

DigitValue(c) == (CHOOSE i \in 1..10 : DecimalDigits[i] = c) - 1

\* The value of the digits a string starts with, after those already read.
RECURSIVE DigitsValue(_, _)
DigitsValue(s, read) ==
    IF s = <<>> \/ ~IsDigit(Head(s)) THEN read
    ELSE DigitsValue(Tail(s), 10 * read + DigitValue(Head(s)))

NaN == None

\* parseInt(string): an optional sign and the digits that follow it, NaN when
\* there is none.
parseInt(s) ==
    LET signed == s # <<>> /\ Head(s) \in {"-", "+"}
        digits == IF signed THEN Tail(s) ELSE s
    IN  IF digits = <<>> \/ ~IsDigit(Head(digits)) THEN NaN
        ELSE IF signed /\ Head(s) = "-" THEN Some(0 - DigitsValue(digits, 0))
        ELSE Some(DigitsValue(digits, 0))

\* Lines 104-117: the milliseconds of one unit.
UnitMilliseconds(expiresUnit) ==
    CASE expiresUnit = "seconds" -> 1000
      [] expiresUnit = "minutes" -> 60 * 1000
      [] expiresUnit = "hours"   -> 60 * 60 * 1000
      [] expiresUnit = "days"    -> 24 * 60 * 60 * 1000

\* Line 101: the 'expires after' value is used.
ExpiryGiven(expiryType, expiresIn) ==
    expiryType = "time" /\ expiresIn # <<>> /\ expiresIn # <<"0">>

\* Lines 102-118 when parseInt returns NaN: expiresAt is new Date(NaN), whose
\* toISOString (line 140) throws.
InvalidDate(expiryType, expiresIn) ==
    ExpiryGiven(expiryType, expiresIn) /\ parseInt(expiresIn) = NaN

\* Lines 100-119: expiresAt, null or the Date of an instant.
ExpiresAt(expiryType, expiresIn, expiresUnit, t) ==
    IF ExpiryGiven(expiryType, expiresIn) /\ parseInt(expiresIn) # NaN
    THEN Some(t + parseInt(expiresIn)[1] * UnitMilliseconds(expiresUnit))
    ELSE None

\* Lines 122-126: maxViews of the request.
Views(expiryType, maxViews) ==
    IF expiryType = "views"
    THEN LET parsed == parseInt(maxViews)
             views  == IF parsed = NaN \/ parsed[1] = 0 THEN 1 ELSE parsed[1]
         IN  IF views < 1 THEN 1 ELSE views
    ELSE 0

\* Line 70: MAX_FILE_SIZE.
MAX_FILE_SIZE == 9 * 1024 * 1024

\* StrictBlocks with > for >=.
StrictBlocksAbove(mode, riskScore) == mode = "strict" /\ riskScore > 70

\* Lines 83 and 92: strict mode refuses a risk score of 70 or more.
StrictBlocks(mode, riskScore) == mode = "strict" /\ riskScore >= 70

\* Lines 129-153: the create request's body. An ISO string of an instant is
\* held as <<t>>, a field left out as None.
Payload(st, enc, t) ==
    LET expires == ExpiresAt(st.expiryType, st.expiresIn, st.expiresUnit, t)
        isFile  == st.file # None
    IN  [encryptedData |-> enc.encryptedData,
         encryptedKey  |-> enc.key,
         iv            |-> enc.iv,
         authTag       |-> enc.authTag,
         maxViews      |-> Views(st.expiryType, st.maxViews),
         isFile        |-> isFile,
         expiresAt     |-> IF st.expiryType = "time" /\ expires # None
                           THEN expires ELSE None,
         fileName      |-> IF isFile THEN st.file[1].name ELSE Null,
         mimeType      |-> IF isFile THEN st.file[1].type ELSE Null,
         password      |-> IF Trim(st.password) # <<>>
                           THEN Some(Trim(st.password)) ELSE None]

\* Text typed in the textarea: none, white space, and texts of risk score 0,
\* 70 and 100.
FormContents ==
    { <<>>, <<" ">>, <<"h", "e", "l", "l", "o">>,
      <<"1", "2", "3", "4", "5", "6", "7", "8">>,
      <<"1", "2", "3", "-", "4", "5", "-", "6", "7", "8", "9">> }

\* Files selected: names of risk score 0 and 70, and a file over the limit.
FormFiles ==
    { [name |-> <<"a", ".", "t", "x", "t">>, type |-> "text/plain",
       size |-> 1, bytes |-> <<"bytes">>],
      [name |-> <<"1", "2", "3", "4", "5", "6", "7", "8", ".", "t", "x", "t">>,
       type |-> "text/plain", size |-> 1, bytes |-> <<"bytes">>],
      [name |-> <<"a", ".", "t", "x", "t">>, type |-> "text/plain",
       size |-> MAX_FILE_SIZE + 1, bytes |-> <<"bytes">>] }

\* analyzeThreats on the texts the form gives it, computed once.
FormAnalysis ==
    [text \in FormContents \cup {selected.name : selected \in FormFiles} |->
       analyzeThreats(text)]

\* What a run of handleSubmit comes to: the request it sends or the error it
\* throws, and whether it awaited anything before.
Sends(request) == [request |-> Some(request), error |-> None, awaited |-> TRUE]
Throws(error, awaited) == [request |-> None, error |-> Some(error), awaited |-> awaited]

\* Lines 56-159: handleSubmit on the form's state, with the key and iv encrypt
\* draws and the instant Date.now() returns.
handleSubmit(st, key, iv, t) ==
    IF st.file # None
    THEN IF st.file[1].size > MAX_FILE_SIZE
         THEN Throws("File size exceeds maximum allowed size of 9MB", FALSE)
         ELSE IF StrictBlocks(st.mode, FormAnalysis[st.file[1].name].riskScore)
         THEN Throws("File name contains sensitive information.", TRUE)
         ELSE IF InvalidDate(st.expiryType, st.expiresIn)
         THEN Throws("Invalid time value", TRUE)
         ELSE Sends(Payload(st, encrypt(st.file[1].bytes, key, iv), t))
    ELSE IF Trim(st.content) = <<>>
         THEN Throws("Please enter content or select a file.", FALSE)
         ELSE IF /\ st.threatAnalysis # None
                 /\ StrictBlocks(st.mode, st.threatAnalysis[1].riskScore)
         THEN Throws("Cannot share high-risk content in strict mode.", FALSE)
         ELSE IF InvalidDate(st.expiryType, st.expiresIn)
         THEN Throws("Invalid time value", TRUE)
         ELSE Sends(Payload(st, encrypt(st.content, key, iv), t))

\* Line 370: the submit button is disabled.
SubmitDisabled(st) ==
    \/ st.loading
    \/ /\ st.mode = "strict" /\ st.threatAnalysis # None
       /\ st.threatAnalysis[1].riskScore >= 70
    \/ Trim(st.content) = <<>> /\ st.file = None

\* NumberFieldValid without the minimum.
NumberFieldValidNoMin(value) == value # <<>> /\ parseInt(value) # NaN

\* An input type="number" min="1" required (lines 319-326, 347-354) lets the
\* form be submitted: it has a value, a number, of 1 or more.
NumberFieldValid(value) ==
    value # <<>> /\ parseInt(value) # NaN /\ parseInt(value)[1] >= 1

\* The browser's validation of the fields rendered lets the submit event be
\* dispatched.
FieldsValid(st) ==
    /\ st.expiryType = "time" => NumberFieldValid(st.expiresIn)
    /\ st.expiryType = "views" => NumberFieldValid(st.maxViews)

\* Lines 14-25: the state of the page when it mounts; the mode is the store's.
MountedForm(mode) ==
    [content |-> <<>>, file |-> None, expiryType |-> "none",
     expiresIn |-> <<"2", "4">>, expiresUnit |-> "hours", maxViews |-> <<"1">>,
     password |-> <<>>, threatAnalysis |-> None, loading |-> FALSE,
     error |-> None, awaited |-> None, mode |-> mode]

\* Values of the 'expires after' and 'max views' fields.
FormNumbers == { <<>>, <<"0">>, <<"1">>, <<"2", "4">>, <<"-", "5">> }
FormViews == { <<>>, <<"1">> }

\* Passwords typed: none, white space, and one with and without a leading
\* space.
TypedInForm == FormPasswords \cup { <<" ">>, <<" ", "a">> }

\* Instants Date.now() returns.
SubmitTimes == {1000, 2000}

\* Lines 28-45: handleContentChange. The textarea is disabled while a file is
\* selected (line 201).
ContentChange ==
    /\ form.file = None
    /\ \E newContent \in FormContents :
         LET found == FormAnalysis[newContent] IN
         form' = IF Trim(newContent) # <<>>
                 THEN [form EXCEPT
                         !.content = newContent,
                         !.threatAnalysis = Some(found),
                         !.error = IF form.mode = "strict" /\ found.riskScore >= 70
                                   THEN Some("High-risk content detected. Please remove sensitive information before sharing.")
                                   ELSE None]
                 ELSE [form EXCEPT !.content = newContent,
                                   !.threatAnalysis = None, !.error = None]
    /\ attempt' = None
    /\ UNCHANGED <<serverVars, codecVars, pageVars, scanVars>>

\* Lines 47-55: handleFileChange.
FileChange ==
    /\ \E selectedFile \in FormFiles :
         form' = [form EXCEPT !.file = Some(selectedFile), !.content = <<>>,
                              !.threatAnalysis = None, !.error = None]
    /\ attempt' = None
    /\ UNCHANGED <<serverVars, codecVars, pageVars, scanVars>>

\* Lines 220-229: REMOVE FILE.
RemoveFile ==
    /\ form.file # None
    /\ form' = [form EXCEPT !.file = None]
    /\ attempt' = None
    /\ UNCHANGED <<serverVars, codecVars, pageVars, scanVars>>

\* SecurityModeSelector: setMode.
SetMode ==
    /\ \E mode \in {"warnings", "strict"} : form' = [form EXCEPT !.mode = mode]
    /\ attempt' = None
    /\ UNCHANGED <<serverVars, codecVars, pageVars, scanVars>>

\* Line 260: the password field.
SetPassword ==
    /\ \E typed \in TypedInForm : form' = [form EXCEPT !.password = typed]
    /\ attempt' = None
    /\ UNCHANGED <<serverVars, codecVars, pageVars, scanVars>>

\* Lines 283-305: the expiry radio buttons.
SetExpiryType ==
    /\ \E expiryType \in {"none", "time", "views"} :
         form' = [form EXCEPT !.expiryType = expiryType]
    /\ attempt' = None
    /\ UNCHANGED <<serverVars, codecVars, pageVars, scanVars>>

\* Lines 319-338: the 'expires after' field and its unit, rendered when the
\* expiry is by time.
SetExpiresIn ==
    /\ form.expiryType = "time"
    /\ \E value \in FormNumbers,
          expiresUnit \in {"seconds", "minutes", "hours", "days"} :
         form' = [form EXCEPT !.expiresIn = value, !.expiresUnit = expiresUnit]
    /\ attempt' = None
    /\ UNCHANGED <<serverVars, codecVars, pageVars, scanVars>>

\* Lines 347-354: the 'max views' field, rendered when the expiry is by views.
SetMaxViews ==
    /\ form.expiryType = "views"
    /\ \E value \in FormViews : form' = [form EXCEPT !.maxViews = value]
    /\ attempt' = None
    /\ UNCHANGED <<serverVars, codecVars, pageVars, scanVars>>

\* The form is submitted: the button is enabled, the fields rendered are
\* valid, and handleSubmit runs to the request it sends or to its throw. What
\* it throws before its first await is caught at once (lines 169-173).
FormSubmit ==
    /\ ~SubmitDisabled(form)
    /\ FieldsValid(form)
    /\ \E key \in Keys, iv \in IVs, t \in SubmitTimes :
         LET run == handleSubmit(form, key, iv, t) IN
         /\ attempt' = Some([at |-> t, request |-> run.request, error |-> run.error])
         /\ form' = IF run.awaited
                    THEN [form EXCEPT !.error = None, !.loading = TRUE,
                                      !.awaited = Some(run.error)]
                    ELSE [form EXCEPT !.error = run.error, !.loading = FALSE]
    /\ UNCHANGED <<serverVars, codecVars, pageVars, scanVars>>

\* What handleSubmit awaited settles: its throw is caught (lines 169-173), or
\* its request is answered, with an error that createNote throws, or with the
\* id, and the page navigates away (lines 159-168), to be mounted anew.
FormSettles ==
    /\ form.awaited # None
    /\ \/ /\ form.awaited[1] # None
          /\ form' = [form EXCEPT !.error = form.awaited[1], !.loading = FALSE,
                                  !.awaited = None]
       \/ /\ form.awaited[1] = None
          /\ \/ form' = [form EXCEPT !.error = Some("Failed to create note"),
                                     !.loading = FALSE, !.awaited = None]
             \/ form' = MountedForm(form.mode)
    /\ attempt' = None
    /\ UNCHANGED <<serverVars, codecVars, pageVars, scanVars>>

InitForm ==
    /\ InitServer /\ IdleCodec /\ IdlePage /\ IdleScan
    /\ form = MountedForm("warnings")
    /\ attempt = None

NextForm ==
    \/ ContentChange \/ FileChange \/ RemoveFile \/ SetMode \/ SetPassword
    \/ SetExpiryType \/ SetExpiresIn \/ SetMaxViews \/ FormSubmit \/ FormSettles

\* The create page in a browser.
SpecForm == InitForm /\ [][NextForm]_vars

\* URLSearchParams.append and toString (api.ts, lines 76-79): a space becomes
\* +, the other characters are escaped as encodeURIComponent escapes them.
RECURSIVE FormUrlEncode(_)
FormUrlEncode(s) ==
    IF s = <<>> THEN <<>>
    ELSE (IF Head(s) = " " THEN <<"+">>
          ELSE IF Head(s) \in Escaped \ {"*"} THEN Escape(Head(s))
          ELSE <<Head(s)>>)
         \o FormUrlEncode(Tail(s))

\* req.query: every + is a space, then the escapes are undone.
FormUrlDecode(s) ==
    decodeURIComponent([i \in 1..Len(s) |-> IF s[i] = "+" THEN " " ELSE s[i]]).value

\* The password of the read request getNote(id, password) sends for what is
\* typed in the view page's password form.
ReadPasswordOf(typed) ==
    IF typed # <<>> THEN Some(FormUrlDecode(FormUrlEncode(typed))) ELSE None

-----------------------------------------------------------------------------
(* Properties *)

\* The last response answered a read of the note.
ReadAnswered(id) == last.req.op = "get" /\ last.req.id = id

\* The last response returned the note's payload to a read.
PayloadReturned(id) == ReadAnswered(id) /\ last.resp.status = 200

\* The last response was Gone to a read of the note.
GoneReturned(id) == ReadAnswered(id) /\ last.resp.status = 410

\* A note with a view cap, no password and no expiry, never deleted, whose
\* reads never overlapped.
PlainCapped(id) ==
    /\ id \in DOMAIN notes
    /\ notes[id].maxViews >= 1
    /\ notes[id].passwordHash = None
    /\ notes[id].expiresAt = None
    /\ ~delAcked[id]
    /\ ~overlapped[id]

\* C1: for a note with maxViews = N >= 1, no password and no expiry, read
\* without overlap, a read of the existing note is answered with the payload or
\* with Gone; the k-th payload carries viewCount = k with k <= N; and Gone
\* comes only once N payloads were returned, so reads 1..N return the payload
\* and every later read returns Gone.
C1_SequentialReadsUpToCap ==
    \A id \in NoteIds :
      (PlainCapped(id) /\ ReadAnswered(id) /\ last.found # NoNote) =>
        \/ /\ last.resp.status = 200
           /\ last.resp.viewCount = okReads[id]
           /\ okReads[id] <= notes[id].maxViews
        \/ /\ last.resp.status = 410
           /\ okReads[id] = notes[id].maxViews

\* A note with maxViews = 2 returned its payload twice and then Gone.
C1_Witness ==
    \E id \in NoteIds :
      /\ PlainCapped(id) /\ GoneReturned(id)
      /\ notes[id].maxViews = 2 /\ okReads[id] = 2

\* C2: for a note with maxViews = N > 0 the reads answered with the payload
\* never number more than N, however reads interleave.
C2_AtMostCapPayloads ==
    \A id \in DOMAIN notes :
      notes[id].maxViews > 0 => okReads[id] <= notes[id].maxViews

\* C3: the key encrypt produced for a note (the one the create page keeps for
\* the share link) is in no string field of the create request, of the stored
\* row or of a read response.
C3_KeyNeverReachesServer ==
    \A id \in DOMAIN links :
      LET key == links[id].encryptionKey IN
      /\ \A f \in {"encryptedKey", "iv", "fileName", "mimeType"} :
           /\ notes[id][f] # key
           /\ PayloadReturned(id) => last.resp[f] # key
           /\ (last.req.op = "create" /\ last.resp.status = 200 /\ last.resp.id = id)
                => last.req.body[f] # key

\* C4: the stored viewCount of a note with maxViews > 0 never exceeds maxViews.
C4_ViewCountWithinCap ==
    \A id \in DOMAIN notes :
      notes[id].maxViews > 0 => notes[id].viewCount <= notes[id].maxViews

\* Overlapping reads brought a capped note to its cap.
C4_Witness ==
    \E id \in DOMAIN notes :
      /\ notes[id].maxViews > 0 /\ notes[id].viewCount = notes[id].maxViews
      /\ overlapped[id]

\* C5: no state has a note with maxViews > 0 and viewCount >= maxViews that is
\* not destroyed.
C5_CapReachedMeansDestroyed ==
    \A id \in DOMAIN notes :
      (notes[id].maxViews > 0 /\ notes[id].viewCount >= notes[id].maxViews)
        => notes[id].destroyed

\* C6: a note that is destroyed is destroyed after every step.
C6_DestroyedNeverReverts ==
    [][\A id \in DOMAIN notes : notes[id].destroyed => notes'[id].destroyed]_vars

\* A read of an unlimited note found it before a delete and committed its
\* increment after the delete was answered; the note is still destroyed.
C6_Witness ==
    \E id \in DOMAIN notes :
      /\ notes[id].destroyed /\ delAcked[id] /\ notes[id].maxViews = 0
      /\ PayloadReturned(id) /\ ~last.found[1].destroyed

\* C7: no step lowers the stored viewCount of a note.
C7_ViewCountNeverDecreases ==
    [][\A id \in DOMAIN notes : notes'[id].viewCount >= notes[id].viewCount]_vars

\* The password is missing, empty or not the note's.
BadPassword(password, n) ==
    \/ password = None
    \/ password = Some(<<>>)
    \/ Pbkdf2(password[1], n.salt[1]) # n.passwordHash[1]

\* C8: a read whose lookup found the note destroyed is answered Gone, whatever
\* its password and the note's other fields, and never goes on to an update.
C8_DestroyedReadIsGone ==
    /\ (last.req.op = "get" /\ last.found # NoNote /\ last.found[1].destroyed)
         => last.resp.status = 410
    /\ \A h \in BagToSet(handlers) : ~h.note[1].destroyed

\* A read with a missing or wrong password found a gated note destroyed and
\* was answered Gone.
C8_Witness ==
    /\ last.req.op = "get" /\ last.found # NoNote /\ last.found[1].destroyed
    /\ Gated(last.found[1]) /\ BadPassword(last.req.password, last.found[1])
    /\ last.resp.status = 410

\* C9: once a delete of a note was answered with success, no read of it is
\* answered with the payload.
C9_NoPayloadAfterDelete ==
    \A id \in NoteIds : ~(delAcked[id] /\ PayloadReturned(id))

\* A read with a missing or wrong password found a gated note not destroyed.
GateRefused ==
    /\ last.req.op = "get" /\ last.found # NoNote /\ ~last.found[1].destroyed
    /\ Gated(last.found[1]) /\ BadPassword(last.req.password, last.found[1])

\* C10: a read of a gated note that is not destroyed, with a missing or wrong
\* password, is answered Unauthorized and never goes on to an update, also
\* when the note is past its expiresAt or at its view cap.
C10_GateBeforeExpiryAndCap ==
    /\ GateRefused => last.resp.status = 401
    /\ \A h \in BagToSet(handlers) :
         Gated(h.note[1]) => ~BadPassword(h.req.password, h.note[1])

\* A read with a missing or wrong password was answered Unauthorized on a
\* note already past its expiresAt, which stays not destroyed.
C10_Witness ==
    /\ GateRefused /\ last.late /\ last.resp.status = 401
    /\ ~notes[last.req.id].destroyed

\* The read's password opens the note's gate, or the note has none.
GatePassed(password, n) == ~Gated(n) \/ ~BadPassword(password, n)

\* The handler takes its step from its await.
Resumes(h) == CopiesIn(h, handlers') < CopiesIn(h, handlers)

\* C11: a read that passed the gate of a note found not destroyed and past its
\* expiresAt goes to no other await than the destruction, and the step it
\* takes there sets destroyed, leaves viewCount as it is and answers Gone.
C11_ExpiredReadIsGone ==
    /\ [](\A h \in BagToSet(handlers) : h.late => h.pc = "expired")
    /\ [](   (last.req.op = "get" /\ last.late /\ ~last.found[1].destroyed
                /\ GatePassed(last.req.password, last.found[1]))
          => last.resp.status = 410)
    /\ [][\A h \in BagToSet(handlers) :
            (h.late /\ Resumes(h)) =>
               /\ notes'[h.req.id].destroyed
               /\ notes'[h.req.id].viewCount = notes[h.req.id].viewCount
               /\ last'.req = h.req /\ last'.resp.status = 410]_vars

\* The first read ever made of a note found it past its expiresAt and was
\* answered Gone; the note is destroyed with viewCount 0.
C11_Witness ==
    /\ last.req.op = "get" /\ last.late /\ ~last.found[1].destroyed
    /\ last.resp.status = 410
    /\ okReads[last.req.id] = 0 /\ ~overlapped[last.req.id] /\ ~delAcked[last.req.id]
    /\ notes[last.req.id].destroyed /\ notes[last.req.id].viewCount = 0

\* The create request's password field is a string with a character that is
\* not white space.
NonBlank(password) == password # None /\ Trim(password[1]) # <<>>

\* The last response answered a read that found the note not destroyed.
LiveReadAnswered(id) ==
    ReadAnswered(id) /\ last.found # NoNote /\ ~last.found[1].destroyed

\* What the password gate owes a read of a note whose create request carried
\* the password x: a read with another password, or none, is answered
\* Unauthorized with requiresPassword, and only a read with x goes on to the
\* expiry and view checks, to be answered with the payload or Gone.
GateHolds(id, x) ==
    /\ LiveReadAnswered(id) =>
         IF last.req.password = x
         THEN last.resp.status \in {200, 410}
         ELSE last.resp.status = 401 /\ last.resp.requiresPassword
    /\ \A h \in BagToSet(handlers) : h.req.id = id => h.req.password = x

\* C12 as stated: the gate holds for every note whose create request carried a
\* password, whatever the string.
C12_PasswordGate ==
    \A id \in DOMAIN notes :
      createdWith[id] # None => GateHolds(id, createdWith[id])

\* C12: the gate holds for every note whose create request carried a password
\* that is not blank; a password of white space alone creates a note with no
\* gate (line 30).
C12_NonBlankPasswordGate ==
    \A id \in DOMAIN notes :
      /\ NonBlank(createdWith[id]) => GateHolds(id, createdWith[id])
      /\ Gated(notes[id]) <=> NonBlank(createdWith[id])

\* A note created with a password returned its payload to a read with that
\* password and then refused a read with another one.
C12_Witness ==
    \E id \in DOMAIN notes :
      /\ NonBlank(createdWith[id]) /\ okReads[id] > 0 /\ LiveReadAnswered(id)
      /\ last.req.password # None /\ last.req.password # createdWith[id]
      /\ last.resp.status = 401

\* C13: of the Unauthorized answers to reads of a gated note, the one to a read
\* with no password carries requiresPassword and makes getNote throw
\* PASSWORD_REQUIRED, the one to a read with a wrong password does not carry
\* it and makes getNote throw 'Invalid password'.
C13_FlagTellsMissingFromWrong ==
    (last.req.op = "get" /\ last.resp.status = 401) =>
       IF Truthy(last.req.password)
       THEN /\ ~last.resp.requiresPassword
            /\ getNoteError(last.resp) = "Invalid password"
       ELSE /\ last.resp.requiresPassword
            /\ getNoteError(last.resp) = "PASSWORD_REQUIRED"

\* C14: every stored note has passwordHash and salt both set or both null.
C14_HashAndSaltPaired ==
    \A id \in DOMAIN notes : (notes[id].passwordHash = None) <=> (notes[id].salt = None)

\* A note with both set has been verified, read and deleted.
C14_Witness ==
    \E id \in DOMAIN notes :
      /\ notes[id].passwordHash # None /\ notes[id].salt # None
      /\ okReads[id] > 0 /\ delAcked[id]
      /\ last.req.op = "verify" /\ last.resp.status = 200

\* The row has neither passwordHash nor salt.
NoHashNoSalt(n) == n.passwordHash = None /\ n.salt = None

\* The response is one of those past the gate: the payload, or Gone from the
\* expiry check or from the view check.
PastGate(resp) ==
    \/ resp.status = 200
    \/ /\ resp.status = 410
       /\ resp.error \in {"Note has expired", "Note has exceeded max views"}

\* C15: a read that found a note with neither passwordHash nor salt is never
\* answered Unauthorized, whatever password it carries, and when the note was
\* not destroyed it is answered by the expiry and view checks or with the
\* payload.
C15_NoHashNoGate ==
    (last.req.op = "get" /\ last.found # NoNote /\ NoHashNoSalt(last.found[1])) =>
       /\ last.resp.status # 401
       /\ ~last.found[1].destroyed => PastGate(last.resp)

\* A read with a password found a note with no gate, not destroyed, and was
\* answered with the payload.
C15_Witness ==
    /\ last.req.op = "get" /\ last.found # NoNote /\ NoHashNoSalt(last.found[1])
    /\ ~last.found[1].destroyed /\ Truthy(last.req.password)
    /\ last.resp.status = 200

\* The step answers a delete of the note: of the steps that leave the clock and
\* the handlers in flight alone, only a delete leaves a delete's answer.
DeleteAnswered(id) ==
    /\ last'.req = [op |-> "delete", id |-> id]
    /\ handlers' = handlers /\ now' = now

\* C16: a delete of an existing note is answered with success (deleteNote
\* throws nothing) and leaves the row as it was but for destroyed = true,
\* whatever its expiry, view count and gate; a delete of a note already
\* deleted is answered the same and leaves the row as it was.
C16_DeleteIdempotent ==
    [][\A id \in DOMAIN notes :
         DeleteAnswered(id) =>
           /\ last'.resp = [status |-> 200, success |-> TRUE]
           /\ deleteNoteError(last'.resp) = "none"
           /\ notes'[id] = [notes[id] EXCEPT !.destroyed = TRUE]
           /\ delAcked[id] => notes'[id] = notes[id]]_vars

\* A delete was answered with success for a note with a gate, with views
\* counted and past its expiresAt.
C16_Witness ==
    \E id \in DOMAIN notes :
      /\ last.req = [op |-> "delete", id |-> id] /\ last.resp.status = 200
      /\ notes[id].destroyed /\ Gated(notes[id]) /\ notes[id].viewCount > 0
      /\ Expired(notes[id], now)

\* C17: any two reads answered Gone, one after the other, are answered with
\* the same status and the same message, whichever way the note died.
C17_GoneIsOneResponse ==
    [][\A id \in NoteIds :
         (GoneReturned(id) /\ GoneReturned(id)') => last'.resp = last.resp]_vars

\* A note with maxViews = 0 and no expiresAt, never deleted.
Unlimited(id) ==
    /\ id \in DOMAIN notes
    /\ notes[id].maxViews = 0 /\ notes[id].expiresAt = None /\ ~delAcked[id]

\* C18: a note with maxViews = 0 and no expiresAt that was never deleted is
\* not destroyed, every read of it that passed the gate goes to the
\* increment, and every such read answered was answered with the payload,
\* however many came before.
C18_ZeroMeansUnlimited ==
    \A id \in NoteIds :
      Unlimited(id) =>
        /\ ~notes[id].destroyed
        /\ \A h \in BagToSet(handlers) : h.req.id = id => h.pc = "increment"
        /\ (ReadAnswered(id) /\ last.found # NoNote
               /\ GatePassed(last.req.password, last.found[1]))
             => last.resp.status = 200

\* An unlimited note with a gate returned its payload MaxReads times, the last
\* of them with viewCount = MaxReads.
C18_Witness ==
    \E id \in NoteIds :
      /\ Unlimited(id) /\ Gated(notes[id]) /\ PayloadReturned(id)
      /\ okReads[id] = MaxReads /\ last.resp.viewCount = MaxReads

\* C19: a step in which the clock advances changes no stored note, and a step
\* in which a note becomes destroyed either answers a delete of it or is the
\* step of a read handler that had passed the gate.
C19_ExpiryIsLazy ==
    [][/\ now' # now => notes' = notes
       /\ \A id \in DOMAIN notes :
            (~notes[id].destroyed /\ notes'[id].destroyed) =>
               \/ DeleteAnswered(id)
               \/ \E h \in BagToSet(handlers) :
                    /\ Resumes(h) /\ h.req.id = id
                    /\ GatePassed(h.req.password, h.note[1])]_vars

\* The clock has run to its end past a gated note's expiresAt, the right
\* password has been verified, and the note is still not destroyed.
C19_Witness ==
    \E id \in DOMAIN notes :
      /\ now = MaxTime /\ Expired(notes[id], now) /\ ~notes[id].destroyed
      /\ Gated(notes[id])
      /\ last.req.op = "verify" /\ last.late /\ last.resp.status = 200

\* The columns set at creation.
CreationColumns ==
    {"id", "encryptedData", "encryptedKey", "iv", "authTag", "isFile", "fileName",
     "mimeType", "expiresAt", "maxViews", "passwordHash", "salt", "createdAt"}

\* C20: no step changes a column of an existing note other than viewCount and
\* destroyed.
C20_CreationColumnsFrozen ==
    [][\A id \in DOMAIN notes :
         /\ id \in DOMAIN notes'
         /\ \A f \in CreationColumns : notes'[id][f] = notes[id][f]]_vars

\* A note created by the form has been read, verified and deleted: viewCount
\* and destroyed have changed and the ciphertext is the one encrypt produced.
C20_Witness ==
    \E id \in DOMAIN links :
      /\ notes[id].viewCount > 0 /\ notes[id].destroyed /\ delAcked[id]
      /\ last.req.op = "verify" /\ last.req.id = id
      /\ \E c \in Contents, iv \in IVs :
           notes[id].encryptedData = encrypt(c, links[id].encryptionKey, iv).encryptedData

\* The step answers a create request: of the steps that leave the clock and
\* the handlers in flight alone, only a create leaves a create's answer.
CreateAnswered ==
    last'.req.op = "create" /\ handlers' = handlers /\ now' = now

\* The body lacks a payload field, or its maxViews is negative, or its
\* expiresAt is a string that is no date-time.
Malformed(body) ==
    \/ \E f \in {"encryptedData", "encryptedKey", "iv", "authTag"} : f \notin DOMAIN body
    \/ body.maxViews < 0
    \/ body.expiresAt \notin {None} \cup {Some(t) : t \in 0..(MaxTime + 1)}

\* C21: a create request with a malformed body is answered with the
\* validation error, and the step that answers it leaves the table as it was.
C21_InvalidCreateRejected ==
    [][(CreateAnswered /\ Malformed(last'.req.body)) =>
          /\ last'.resp.status = 400
          /\ last'.resp.error = "Invalid request data"
          /\ notes' = notes]_vars

\* A create request with a payload field left out was refused while a note
\* with views counted was in the table.
C21_Witness ==
    /\ last.req.op = "create" /\ "encryptedData" \notin DOMAIN last.req.body
    /\ last.resp.status = 400
    /\ \E id \in DOMAIN notes : notes[id].viewCount > 0

\* The fields an error response may carry: the status, the generic message
\* and the machine-readable flag.
ErrorFields == {"status", "error", "requiresPassword"}

\* C22: no error response carries a field other than the status, the generic
\* message and the flag; none carries the request's body.
C22_ErrorsCarryNoRequestData ==
    last.resp.status >= 400 => DOMAIN last.resp \subseteq ErrorFields

\* decrypt was called on what encrypt returned, as it was.
RoundTripped ==
    encrypted # None /\ decrypted # None /\ args = Some(ArgsOf(encrypted[1]))

\* C23: decrypt applied to what encrypt returned for a plaintext returns a
\* value with exactly the plaintext's bytes, for texts and for files' bytes.
C23_DecryptInvertsEncrypt ==
    RoundTripped =>
       /\ decrypted[1].ok
       /\ BytesOf(decrypted[1].value) = BytesOf(plaintext)

\* C24: whenever decrypt fails it throws the one decryption error, whatever
\* was wrong with its arguments.
C24_OneDecryptionError ==
    (decrypted # None /\ ~decrypted[1].ok) =>
       decrypted[1].error = "Decryption failed. Data may be corrupted or key is incorrect."

\* The URL's fragment is missing, or decodes to something whose part before
\* the first '&' has a character that is not base64.
KeyUnusable(loc) ==
    \/ loc.hash = <<>>
    \/ LET decoded == decodeURIComponent(Tail(loc.hash)) IN
       /\ decoded.ok
       /\ \E i \in 1..Len(FirstPart(decoded.value)) :
            ~IsBase64Char(FirstPart(decoded.value)[i])

\* The step is a run of the load effect.
EffectRan == lifecycle # <<>> /\ Head(lifecycle) = "run" /\ lifecycle' = Tail(lifecycle)

\* The step is a submission of the password form.
Submitted == lifecycle' = lifecycle /\ page'.handled = "submit" /\ page' # page

\* The read requests the load effect sent.
LoadRequests == SelectSeq(requests, LAMBDA r : r.from = "load")

\* C25: the link built from a note's id, its key and the password, opened in
\* the browser, gives the page the same id and the same key, and the page's
\* requests ask for that id.
C25_ShareLinkRoundTrip ==
    (link # None /\ ~edited) =>
        /\ location.id = Some(link[1].noteId)
        /\ ExtractKey(location) = [kind |-> "key", value |-> link[1].encryptionKey]
        /\ \A i \in 1..Len(requests) : requests[i].id = link[1].noteId

C25_Witness ==
    /\ link # None /\ ~edited
    /\ link[1].password = Some(<<"#", "&", "?">>)
    /\ link[1].encryptionKey = <<"+", "=">>
    /\ requests # <<>>

\* While the key in the URL is unusable no step of the page sends a request.
NoRequestWithoutKey ==
    [][(KeyUnusable(location) /\ location' = location) => requests' = requests]_vars

\* C26: with an unusable key in the URL the first load and every submission of
\* the password form send no request and leave an error message on the screen.
C26_KeyValidatedBeforeUse ==
    [][(/\ KeyUnusable(location)
        /\ \/ EffectRan /\ ~edited
           \/ Submitted)
       => /\ requests' = requests
          /\ View(page').message # None]_vars

\* C27: a page whose URL was not changed sends at most one read request from
\* its load effect.
C27_LoadOnce == ~edited => Len(LoadRequests) <= 1

\* The values of the levels.
Severity == [low |-> 20, medium |-> 40, high |-> 70, critical |-> 100]

\* The rules that match a text.
Matching(text) == {k \in 1..Len(patterns) : Match(text, patterns[k].regex) # None}

\* The greatest of a set of numbers.
Greatest(S) == CHOOSE x \in S : \A y \in S : y <= x

\* C28: the score is the greatest value of the levels of the rules that match
\* the text, whatever their order and the number of matches, and 0 when no
\* rule matches.
C28_ScoreIsMaxSeverity ==
    analysis # None =>
        analysis[1].riskScore =
            IF Matching(scanned[1]) = {} THEN 0
            ELSE Greatest({Severity[patterns[k].level] : k \in Matching(scanned[1])})

C28_Witness ==
    /\ analysis # None
    /\ analysis[1].riskScore = 40
    /\ Len(analysis[1].alerts) = 2
    /\ \A k \in 1..2 : analysis[1].alerts[k].level = "medium"

\* The level of a score by the thresholds 90, 70 and 40.
LevelAt(score) ==
    CASE score >= 90 -> "critical"
      [] score >= 70 /\ score < 90 -> "high"
      [] score >= 40 /\ score < 70 -> "medium"
      [] score < 40 -> "low"

\* C29: the level is the one the thresholds give the score; it is the highest
\* level among the rules that match, and low when none does.
C29_LevelFromScore ==
    analysis # None =>
        /\ analysis[1].riskLevel = LevelAt(analysis[1].riskScore)
        /\ IF Matching(scanned[1]) = {} THEN analysis[1].riskLevel = "low"
           ELSE /\ \E k \in Matching(scanned[1]) : patterns[k].level = analysis[1].riskLevel
                /\ \A k \in Matching(scanned[1]) :
                     Severity[patterns[k].level] <= Severity[analysis[1].riskLevel]

C29_Witness ==
    /\ analysis # None
    /\ analysis[1].riskScore = 70
    /\ analysis[1].riskLevel = "high"
    /\ Len(analysis[1].alerts) = 1

\* The places where p occurs in s, each with the position after its end.
Occurrences(p, s) ==
    {[index |-> i, end |-> i + Len(p)] : i \in {j \in 1..(Len(s) - Len(p) + 1) :
                                                 SubSeq(s, j, j + Len(p) - 1) = p}}

\* Two places of a text share a character.
Overlap(r, q) == r.index < q.end /\ q.index < r.end

\* The matches the alerts of the two highest levels recorded.
Recorded(a) ==
    {a.alerts[k].pattern : k \in {j \in 1..Len(a.alerts) :
                                    a.alerts[j].level \in {"high", "critical"}}}

\* The places that the rules of the given levels match in a text.
MatchedBy(levels, text) ==
    UNION {{MatchRanges(patterns[k].regex, text, 1)[n] :
              n \in 1..Len(MatchRanges(patterns[k].regex, text, 1))} :
           k \in {j \in 1..Len(patterns) : patterns[j].level \in levels}}

\* The places matched by rules of the two lowest levels only.
LowOnly(text) ==
    {r \in MatchedBy({"low", "medium"}, text) :
       \A q \in MatchedBy({"high", "critical"}, text) : ~Overlap(r, q)}

\* s with every copy of p replaced by at most 12 asterisks, from left to right.
RECURSIVE Starred(_, _)
Starred(s, p) ==
    IF Len(s) < Len(p) THEN s
    ELSE IF SubSeq(s, 1, Len(p)) = p
    THEN [k \in 1..(IF Len(p) < 12 THEN Len(p) ELSE 12) |-> "*"]
         \o Starred(SubSeq(s, Len(p) + 1, Len(s)), p)
    ELSE <<Head(s)>> \o Starred(Tail(s), p)

\* There is a masked rendering exactly from score 70 on; no recorded match is
\* in it; with one recorded match it is the text with every copy starred.
MaskedFromSeventy(text, a) ==
    /\ (a.maskedContent # None) <=> (a.riskScore >= 70)
    /\ a.maskedContent # None =>
         /\ \A p \in Recorded(a) : Occurrences(p, a.maskedContent[1]) = {}
         /\ \A p \in Recorded(a) :
              Recorded(a) = {p} => a.maskedContent[1] = Starred(text, p)

RECURSIVE MatchingFrom(_, _)
MatchingFrom(k, text) ==
    IF k > Len(patterns) THEN <<>>
    ELSE (IF k \in Matching(text) THEN <<k>> ELSE <<>>) \o MatchingFrom(k + 1, text)

\* The first place where a rule matches a text.
FirstPlace(k, text) ==
    CHOOSE r \in MatchedBy({patterns[k].level}, text) :
       /\ Ends(patterns[k].regex, text, r.index) # <<>>
       /\ r.end = Head(Ends(patterns[k].regex, text, r.index))
       /\ \A i \in 1..(r.index - 1) : Ends(patterns[k].regex, text, i) = <<>>

\* C31: there is one alert for each rule that matches the text and none for
\* the others; the alerts are in the order of the rules and each has the
\* leftmost match of its rule.
C31_OneAlertPerMatchingRule ==
    analysis # None =>
        LET hit == MatchingFrom(1, scanned[1]) IN
        /\ Len(analysis[1].alerts) = Len(hit)
        /\ \A n \in 1..Len(hit) :
             /\ analysis[1].alerts[n].message = patterns[hit[n]].message
             /\ analysis[1].alerts[n].level = patterns[hit[n]].level
             /\ analysis[1].alerts[n].category = patterns[hit[n]].category
             /\ analysis[1].alerts[n].pattern =
                  SubSeq(scanned[1], FirstPlace(hit[n], scanned[1]).index,
                         FirstPlace(hit[n], scanned[1]).end - 1)

C31_Witness ==
    /\ analysis # None
    /\ scanned[1] = <<"1", "2", "3", "4", "5", "6", "7", "8">> \o <<" ">> \o <<"4", "1", "1", "1", "1", "1", "1", "1", "1", "1", "1", "1", "1", "1", "1", "1">>
    /\ Len(analysis[1].alerts) = 2
    /\ analysis[1].alerts[1].message = "Credit card number detected"
    /\ analysis[1].alerts[2].message = "Possible bank account number detected"
    /\ analysis[1].alerts[2].pattern = <<"1", "2", "3", "4", "5", "6", "7", "8">>

\* The step starts a read of the note: a handler that was not there awaits its
\* first update, or the read is answered at once from the row it found.
StartsRead(id) ==
    \/ \E h \in BagToSet(handlers') :
         /\ CopiesIn(h, handlers') > CopiesIn(h, handlers)
         /\ h.req.id = id /\ h.pc # "destroy"
    \/ /\ handlers' = handlers /\ last' # last
       /\ last'.req.op = "get" /\ last'.req.id = id

\* C33: when a read of a note has been answered Gone the note is destroyed; a
\* destroyed note stays destroyed; and a read that starts on a destroyed note
\* is answered Gone in the step that starts it, whatever password it carries.
\* So every read that starts after a Gone is answered Gone, never with the
\* payload and never Unauthorized.
C33_GoneIsTerminal ==
    /\ [](\A id \in NoteIds : GoneReturned(id) => notes[id].destroyed)
    /\ [][\A id \in DOMAIN notes :
            notes[id].destroyed =>
              /\ notes'[id].destroyed
              /\ StartsRead(id) =>
                   /\ handlers' = handlers
                   /\ ReadAnswered(id)' /\ last'.resp.status = 410]_vars

\* A gated note without a view cap, never deleted, is destroyed, which only a
\* read answered Gone at its expiry can have done, and a later read with a
\* wrong password found it destroyed and was answered Gone.
C33_Witness ==
    \E id \in DOMAIN notes :
      /\ notes[id].maxViews = 0 /\ ~delAcked[id] /\ Gated(notes[id])
      /\ ReadAnswered(id) /\ last.found # NoNote /\ last.found[1].destroyed
      /\ Truthy(last.req.password)
      /\ BadPassword(last.req.password, last.found[1])
      /\ last.resp = ErrorResponse(410, "Note has been destroyed")

\* C34: the viewCount a read returns with the payload is the number of reads
\* of the note answered with the payload up to and including it, so no two
\* such reads return the same viewCount.
C34_ViewCountCountsReads ==
    \A id \in NoteIds :
      PayloadReturned(id) => last.resp.viewCount = okReads[id]

\* C35: a read, a verify or a delete addressed to an id no note was created
\* with is answered NotFound, and the step that answers it leaves the table as
\* it was.
C35_UnknownIdNotFound ==
    [][\A id \in NoteIds \ DOMAIN notes :
         (/\ last' # last
          /\ last'.req.op \in {"get", "verify", "delete"}
          /\ last'.req.id = id)
           => /\ last'.resp.status = 404
              /\ notes' = notes]_vars

\* The row has a view cap and its viewCount has reached it.
AtCap(n) == n.maxViews > 0 /\ n.viewCount >= n.maxViews

\* C36: when a read stopped after the increment that brought viewCount to
\* maxViews and before the destruction, a read that finds the row at its cap
\* and not destroyed, and passes the gate, goes to no other await than a
\* destruction, is answered Gone, and leaves the note destroyed; no read that
\* found the row at its cap is answered with the payload.
C36_CapSurvivesInterruptedRead ==
    /\ \A h \in BagToSet(handlers) :
         AtCap(h.note[1]) => h.pc \in {"expired", "exhausted"}
    /\ (/\ last.req.op = "get" /\ last.found # NoNote
        /\ AtCap(last.found[1]) /\ ~last.found[1].destroyed
        /\ GatePassed(last.req.password, last.found[1]))
         => /\ last.resp.status = 410
            /\ notes[last.req.id].destroyed

\* A note with a gate whose reads never overlapped was found at its cap and
\* not destroyed, which only a last view that stopped before its destruction
\* leaves behind, by a read with the password, which was answered Gone; the
\* note is destroyed and returned one payload fewer than its cap.
C36_Witness ==
    \E id \in DOMAIN notes :
      /\ ~overlapped[id] /\ ~delAcked[id] /\ Gated(notes[id])
      /\ ReadAnswered(id) /\ last.found # NoNote
      /\ AtCap(last.found[1]) /\ ~last.found[1].destroyed
      /\ last.resp = ErrorResponse(410, "Note has exceeded max views")
      /\ notes[id].destroyed /\ okReads[id] = notes[id].maxViews - 1

\* The step answers a verify: of the steps that leave the clock and the
\* handlers in flight alone, only a verify leaves a verify's answer.
VerifyAnswered ==
    last'.req.op = "verify" /\ handlers' = handlers /\ now' = now

\* C37: a step that answers a verify leaves every field of every note as it
\* was, whether the answer is not found, no gate, password required, invalid
\* password or valid.
C37_VerifyChangesNothing ==
    [][VerifyAnswered =>
          /\ notes' = notes
          /\ last'.resp \in
               { ErrorResponse(404, "Note not found"),
                 [status |-> 200, requiresPassword |-> FALSE],
                 GateResponse("Password required"),
                 GateResponse("Invalid password"),
                 [status |-> 200, valid |-> TRUE] }]_vars

\* The right password of a gated note was verified, and the note, created by
\* the form with one view, is not destroyed and has no view counted.
C37_Witness ==
    \E id \in DOMAIN links :
      /\ last.req.op = "verify" /\ last.req.id = id
      /\ last.resp = [status |-> 200, valid |-> TRUE]
      /\ notes[id].maxViews = 1 /\ notes[id].viewCount = 0
      /\ ~notes[id].destroyed /\ okReads[id] = 0

\* C38: a note whose create request had no password, an empty one or one of
\* white space alone is stored with passwordHash and salt null, and a read of
\* it that finds it not destroyed, with or without a password, is answered by
\* the expiry and view checks or with the payload, never Unauthorized.
C38_BlankPasswordMeansNoGate ==
    \A id \in DOMAIN notes :
      ~NonBlank(createdWith[id]) =>
         /\ notes[id].passwordHash = None /\ notes[id].salt = None
         /\ LiveReadAnswered(id) => PastGate(last.resp)

\* A note whose create request carried a password of white space returned its
\* payload to a read without a password.
C38_Witness ==
    \E id \in DOMAIN notes :
      /\ createdWith[id] # None /\ createdWith[id] # Some(<<>>)
      /\ ~NonBlank(createdWith[id])
      /\ PayloadReturned(id) /\ last.req.password = None
      /\ ~last.found[1].destroyed

\* What the submit just made was to share: the selected file's name, or the
\* text.
Subject == IF form.file # None THEN form.file[1].name ELSE form.content

\* C32: a submit made in strict mode sends no create request when the text
\* scores 70 or more, nor when the selected file's name does, whatever edits,
\* file selections and removals and mode switches came before; a submit made
\* in warnings mode of a text that is not blank, or of a file within the size
\* limit, sends the request, with the ciphertext of that text or file,
\* whatever the score.
C32_StrictBlocksHighRisk ==
    attempt # None =>
      /\ (form.mode = "strict" /\ FormAnalysis[Subject].riskScore >= 70)
           => attempt[1].request = None
      /\ (/\ form.mode = "warnings"
          /\ form.file # None => form.file[1].size <= MAX_FILE_SIZE
          /\ form.file = None => Trim(form.content) # <<>>)
           => /\ attempt[1].request # None
              /\ \E key \in Keys, iv \in IVs :
                   attempt[1].request[1].encryptedData =
                     encrypt(IF form.file # None THEN form.file[1].bytes
                             ELSE form.content, key, iv).encryptedData

\* A submit in strict mode of a file whose name scores 70 sent no request and
\* threw the file name error.
C32_Witness ==
    /\ attempt # None /\ form.mode = "strict" /\ form.file # None
    /\ FormAnalysis[form.file[1].name].riskScore >= 70
    /\ attempt[1].request = None
    /\ attempt[1].error = Some("File name contains sensitive information.")

\* C39: when the create form sends a request with a password typed that is
\* not blank, a read of the created note with the same string typed in the
\* view page's password form passes the note's gate, also when the string has
\* leading or trailing spaces.
C39_SameStringOpens ==
    (attempt # None /\ attempt[1].request # None /\ Trim(form.password) # <<>>) =>
       \A salt \in Salts :
         LET row == CreateRow("n1", attempt[1].request[1], salt, attempt[1].at) IN
         GetOutcome(Some(row), ReadPasswordOf(form.password), attempt[1].at)
            \notin {"pwrequired", "pwinvalid"}

\* The request handleSubmit makes of the form as it stands, at an instant.
RequestAt(t) == Payload(form, encrypt(form.content, "k1", "iv1"), t)

====
